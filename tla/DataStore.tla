------------------------------- MODULE DataStore -------------------------------
(***************************************************************************)
(* The SQL data store (pkg/server/plugin/datastore/sql): what each call    *)
(* does to the tables and what it returns.  A call is an operator from the *)
(* tables and its arguments to [db, err, res].                             *)
(*                                                                         *)
(* Every model embeds gorm.Model, so that Delete marks a row ("dead")      *)
(* rather than removing it: no query returns the row any more, but it      *)
(* still counts for the unique indexes.                                    *)
(***************************************************************************)
EXTENDS Naturals, Sequences, FiniteSets

CONSTANTS
  Tokens,     \* join tokens
  Ids,        \* SPIFFE IDs, of agents and of workloads
  EntryIds,   \* registration entry ids; CreateRegistrationEntry draws an unused one
  Selectors,  \* selectors
  Domains,    \* trust domains
  Certs       \* CA certificates

ASSUME DataStoreAssumption == Ids # {}

Row == {"none", "live", "dead"}

Requests == [spiffe: Ids, parent: Ids, selectors: Seq(Selectors)]

DB == [token:    [Tokens -> [row: Row, expiry: Nat]],
       node:     [Ids -> [row: Row, serial: Nat]],
       resolver: [Ids \X Selectors -> Row],
       entry:    [EntryIds -> [row: Row, spiffe: Ids, parent: Ids]],
       selector: SUBSET (EntryIds \X Selectors),
       bundle:   [Domains -> [row: Row, certs: SUBSET Certs]]]

\* migrateDB on a new database.
EmptyDB ==
  [token    |-> [t \in Tokens |-> [row |-> "none", expiry |-> 0]],
   node     |-> [i \in Ids |-> [row |-> "none", serial |-> 0]],
   resolver |-> [p \in Ids \X Selectors |-> "none"],
   entry    |-> [e \in EntryIds |->
                   LET i == CHOOSE i \in Ids : TRUE
                   IN [row |-> "none", spiffe |-> i, parent |-> i]],
   selector |-> {},
   bundle   |-> [d \in Domains |-> [row |-> "none", certs |-> {}]]]

Return(db, res) == [db |-> db, err |-> FALSE, res |-> res]
Fail(db)        == [db |-> db, err |-> TRUE, res |-> {}]

(***************************************************************************)
(* Join tokens.                                                            *)
(***************************************************************************)
\* Buggy: the name of a deleted token is free again.
RegisterTokenAgain(db, t, expiry) ==
  IF db.token[t].row = "live" \/ expiry = 0
    THEN Fail(db)
    ELSE Return([db EXCEPT !.token[t] = [row |-> "live", expiry |-> expiry]], {})

RegisterToken(db, t, expiry) ==
  IF db.token[t].row # "none" \/ expiry = 0
    THEN Fail(db)
    ELSE Return([db EXCEPT !.token[t] = [row |-> "live", expiry |-> expiry]], {})

\* The token, or nothing: a missing token is not an error.
FetchToken(db, t) == {u \in {t} : db.token[u].row = "live"}

\* Delete without a primary key: gorm marks every row of the table.
DeleteToken(db, t) ==
  Return([db EXCEPT !.token = [u \in Tokens |->
            IF @[u].row = "live" THEN [@[u] EXCEPT !.row = "dead"] ELSE @[u]]], {})

PruneTokens(db, expiry) ==
  Return([db EXCEPT !.token = [u \in Tokens |->
            IF @[u].row = "live" /\ @[u].expiry <= expiry
              THEN [@[u] EXCEPT !.row = "dead"] ELSE @[u]]], {})

(***************************************************************************)
(* Attested nodes.                                                         *)
(***************************************************************************)
CreateAttestedNodeEntry(db, i, serial) ==
  IF db.node[i].row # "none"
    THEN Fail(db)
    ELSE Return([db EXCEPT !.node[i] = [row |-> "live", serial |-> serial]], {serial})

\* The serial number, or nothing: a missing node is not an error.
FetchAttestedNodeEntry(db, i) ==
  IF db.node[i].row = "live" THEN {db.node[i].serial} ELSE {}

UpdateAttestedNodeEntry(db, i, serial) ==
  IF db.node[i].row # "live"
    THEN Fail(db)
    ELSE Return([db EXCEPT !.node[i].serial = serial], {serial})

DeleteAttestedNodeEntry(db, i) ==
  IF db.node[i].row # "live"
    THEN Fail(db)
    ELSE Return([db EXCEPT !.node[i].row = "dead"], {db.node[i].serial})

(***************************************************************************)
(* The node resolver map.                                                  *)
(***************************************************************************)
CreateNodeResolverMapEntry(db, i, s) ==
  IF db.resolver[<<i, s>>] # "none"
    THEN Fail(db)
    ELSE Return([db EXCEPT !.resolver[<<i, s>>] = "live"], {s})

FetchNodeResolverMapEntry(db, i) == {s \in Selectors : db.resolver[<<i, s>>] = "live"}

\* Without a selector (S = Selectors), all of the node's.
DeleteNodeResolverMapEntry(db, i, S) ==
  Return([db EXCEPT !.resolver = [p \in Ids \X Selectors |->
            IF p[1] = i /\ p[2] \in S /\ @[p] = "live" THEN "dead" ELSE @[p]]],
         S \cap FetchNodeResolverMapEntry(db, i))

(***************************************************************************)
(* Registration entries and their selectors.                               *)
(***************************************************************************)
Elements(seq) == {seq[i] : i \in DOMAIN seq}

\* validateRegistrationEntry and the unique index on an entry's selectors.
Valid(request) ==
  /\ request.selectors # <<>>
  /\ Cardinality(Elements(request.selectors)) = Len(request.selectors)

LiveEntries(db) == {e \in EntryIds : db.entry[e].row = "live"}

\* convertEntries: the selectors of an entry.
SelectorsOf(db, e) == {s \in Selectors : <<e, s>> \in db.selector}

SetSelectors(selector, e, S) ==
  {p \in selector : p[1] # e} \cup ({e} \X S)

StoreEntry(db, e, request) ==
  [db EXCEPT !.entry[e]  = [row |-> "live", spiffe |-> request.spiffe,
                            parent |-> request.parent],
             !.selector  = SetSelectors(@, e, Elements(request.selectors))]

CreateRegistrationEntry(db, e, request) ==
  IF ~Valid(request)
    THEN Fail(db)
    ELSE Return(StoreEntry(db, e, request), {e})

\* Fetching a missing entry is not an error.
FetchRegistrationEntry(db, e) == {e} \cap LiveEntries(db)

FetchRegistrationEntries(db) == LiveEntries(db)

UpdateRegistrationEntry(db, e, request) ==
  IF ~Valid(request) \/ e \notin LiveEntries(db)
    THEN Fail(db)
    ELSE Return(StoreEntry(db, e, request), {e})

\* The entry is marked; its rows in the selectors table stay as they are.
DeleteRegistrationEntry(db, e) ==
  IF e \notin LiveEntries(db)
    THEN Fail(db)
    ELSE Return([db EXCEPT !.entry[e].row = "dead"], {e})

ListParentIDEntries(db, i) == {e \in LiveEntries(db) : db.entry[e].parent = i}

ListSpiffeEntries(db, i) == {e \in LiveEntries(db) : db.entry[e].spiffe = i}

\* Buggy: entries that have one of the selectors.
EntryIDsOfAny(db, selectors) ==
  {e \in EntryIds : \E i \in DOMAIN selectors : <<e, selectors[i]>> \in db.selector}

\* listMatchingEntries: the entry ids that every requested selector refers to.
EntryIDs(db, selectors) ==
  LET refCount(e) == Cardinality({i \in DOMAIN selectors : <<e, selectors[i]>> \in db.selector})
  IN {e \in EntryIds : refCount(e) = Len(selectors)}

\* listMatchingEntries: looking an id up fails when its entry has been deleted.
Matching(db, selectors) ==
  IF EntryIDs(db, selectors) \subseteq LiveEntries(db)
    THEN Return(db, EntryIDs(db, selectors))
    ELSE Fail(db)

ListMatchingEntries(db, selectors) ==
  IF selectors = <<>> THEN Return(db, {}) ELSE Matching(db, selectors)

\* Buggy: entries with more selectors than requested are kept.
ListSelectorEntriesInexact(db, selectors) == ListMatchingEntries(db, selectors)

ListSelectorEntries(db, selectors) ==
  IF selectors = <<>>
    THEN Return(db, {})
    ELSE [Matching(db, selectors) EXCEPT !.res =
            {e \in @ : Cardinality(SelectorsOf(db, e)) = Len(selectors)}]

(***************************************************************************)
(* Trust bundles.                                                          *)
(***************************************************************************)
CreateBundle(db, d, certs) ==
  IF db.bundle[d].row # "none"
    THEN Fail(db)
    ELSE Return([db EXCEPT !.bundle[d] = [row |-> "live", certs |-> certs]], certs)

UpdateBundle(db, d, certs) ==
  IF db.bundle[d].row # "live"
    THEN Fail(db)
    ELSE Return([db EXCEPT !.bundle[d].certs = certs], certs)

AppendBundle(db, d, certs) ==
  IF db.bundle[d].row # "live"
    THEN CreateBundle(db, d, certs)
    ELSE Return([db EXCEPT !.bundle[d].certs = @ \cup certs], db.bundle[d].certs \cup certs)

DeleteBundle(db, d) ==
  IF db.bundle[d].row # "live"
    THEN Fail(db)
    ELSE Return([db EXCEPT !.bundle[d] = [row |-> "dead", certs |-> {}]], db.bundle[d].certs)

FetchBundle(db, d) ==
  IF db.bundle[d].row # "live" THEN Fail(db) ELSE Return(db, db.bundle[d].certs)

ListBundles(db) == {d \in Domains : db.bundle[d].row = "live"}
================================================================================
