------------------------------ MODULE Registration ------------------------------
(***************************************************************************)
(* The registration API (pkg/server/endpoints/registration/handler.go)     *)
(* over the SQL data store.  CreateEntry first lists the entries with the  *)
(* requested SPIFFE ID, and creates the entry in a second data store call; *)
(* calls of several clients interleave.                                    *)
(***************************************************************************)
EXTENDS DataStoreCalls

CONSTANTS
  Calls,      \* goroutines of the server that handle CreateEntry calls
  ValidIds    \* the Ids that ValidateSpiffeID accepts

VARIABLE
  call       \* each CreateEntry call: its request, its answer, and whether there has been
             \* a moment since it started without an equal entry (history)

Idle == [pc |-> "idle"]

CallsOK ==
  call \in [Calls -> {Idle} \cup
             [pc: {"check", "create", "done"}, request: Arguments, free: BOOLEAN, ok: BOOLEAN]]

\* Buggy: the parent is compared with the requested SPIFFE ID.
EqualsSwapped(tables, e, r) ==
  /\ tables.entry[e].spiffe = r.spiffe /\ tables.entry[e].parent = r.spiffe
  /\ SelectorsOf(tables, e) = Elements(r.selectors)

\* isEntryUnique's comparison of an existing entry with the requested one.
Equals(tables, e, r) ==
  /\ tables.entry[e].spiffe = r.spiffe /\ tables.entry[e].parent = r.parent
  /\ SelectorsOf(tables, e) = Elements(r.selectors)

\* isEntryUnique
Unique(tables, r) ==
  \A e \in ListSpiffeEntries(tables, r.spiffe) : ~Equals(tables, e, r)

\* History: no live entry of the tables is the requested one.
Free(tables, r) ==
  \A e \in LiveEntries(tables) :
    \/ tables.entry[e].spiffe # r.spiffe
    \/ tables.entry[e].parent # r.parent
    \/ SelectorsOf(tables, e) # Elements(r.selectors)

\* CreateEntry validates the SPIFFE ID.
CreateEntry(c, r) ==
  /\ call[c] = Idle
  /\ call' = [call EXCEPT ![c] = [pc |-> IF r.spiffe \in ValidIds THEN "check" ELSE "done",
                                  request |-> r, free |-> Free(db, r), ok |-> FALSE]]
  /\ UNCHANGED db

CheckUnique(c) ==
  /\ call[c].pc = "check"
  /\ call' = [call EXCEPT ![c].pc = IF Unique(db, call[c].request) THEN "create" ELSE "done"]
  /\ UNCHANGED db

\* The id of the entry is new.
StoreNewEntry(c) ==
  /\ call[c].pc = "create"
  /\ \E e \in EntryIds :
       /\ db.entry[e].row = "none"
       /\ LET result == CreateRegistrationEntry(db, e, call[c].request)
          IN /\ db' = result.db
             /\ call' = [call EXCEPT ![c].pc = "done", ![c].ok = ~result.err]

\* The data store returns an error.
StoreFails(c) ==
  /\ call[c].pc = "create"
  /\ call' = [call EXCEPT ![c].pc = "done"]
  /\ UNCHANGED db

\* DeleteEntry.  A call that runs sees the tables without the entry from now on.
DeleteEntry(e) ==
  /\ db' = DeleteRegistrationEntry(db, e).db
  /\ call' = [c \in Calls |-> IF call[c] = Idle THEN Idle
                ELSE [call[c] EXCEPT !.free = @ \/ Free(db', call[c].request)]]

\* CreateJoinToken refuses a lifetime below 1.
CreateJoinToken(t, ttl) == IF ttl < 1 THEN Fail(db) ELSE RegisterToken(db, t, ttl)

(***************************************************************************)
(* Properties.                                                             *)
(***************************************************************************)
\* CreateEntry goes on to create an entry only if, at some moment since it was called,
\* the entry did not exist: one that exists all along is always refused ("Entry already
\* exists"), however other calls create and delete entries meanwhile.
ExistingEntryIsRefused ==
  \A c \in Calls : call[c].pc = "create" => call[c].free
================================================================================
