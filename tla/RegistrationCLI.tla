---------------------------- MODULE RegistrationCLI ----------------------------
(***************************************************************************)
(* The commands of spire-server that use the registration API: entry       *)
(* create, entry show, entry delete, token generate and bundle show.       *)
(*                                                                         *)
(* A command is a sequence of calls, between which the commands of others  *)
(* make theirs; a failed call ends it with code 1.  UpdateEntry does       *)
(* nothing, so what an entry says never changes.                           *)
(***************************************************************************)
EXTENDS Registration

CONSTANTS
  None,        \* no entry, SPIFFE ID or token
  BadFlag,     \* a -selector flag without a colon
  Files,       \* the lists of entries that entry create may be given, and
  Malformed,   \* a data file that is no JSON
  Queries,     \* the flags that entry show may be given
  Ttls,        \* requested lifetimes of join tokens, 0 (rejected) among them
  AgentId,     \* the SPIFFE ID, and the selector for it, of the agent that a token attests
  AgentSelector

ASSUME CLIAssumption ==
  /\ None \notin Ids \cup EntryIds \cup Tokens /\ BadFlag \notin Selectors
  /\ AgentId \in [Tokens -> Ids] /\ AgentSelector \in [Tokens -> Selectors]
  /\ Files \subseteq {Malformed} \cup Seq(Requests)
  /\ Queries \subseteq [entry: EntryIds \cup {None}, parent: Ids \cup {None},
                        spiffe: Ids \cup {None}, selectors: Seq(Selectors \cup {BadFlag})]
  /\ Ttls \subseteq Nat

VARIABLE
  cmd   \* the command, run once, that makes each call

vars == <<db, call, cmd>>

(***************************************************************************)
(* file: the entries to create, of which sent are; query, left and shown:  *)
(* the flags of entry show, the calls to be made yet, and the entries      *)
(* found; target: the entry to delete; token: the token that was created.  *)
(* always and ever (history): the entries that have been there all the     *)
(* time, and at any time, since the command started.                       *)
(***************************************************************************)
NoQuery == [entry |-> None, parent |-> None, spiffe |-> None, selectors |-> <<>>]

Command(name) ==
  [name |-> name, code |-> "runs", file |-> <<>>, sent |-> 0, query |-> NoQuery, left |-> <<>>,
   shown |-> {}, target |-> None, token |-> None,
   always |-> LiveEntries(db), ever |-> LiveEntries(db)]

NoCommand == [name |-> "none", code |-> "none"]
Running(c) == cmd[c].code = "runs"

\* The CA manager has stored the bundle of each trust domain before the API is served.
Init ==
  /\ db = [EmptyDB EXCEPT !.bundle = [d \in Domains |-> AppendBundle(EmptyDB, d, Certs).db.bundle[d]]]
  /\ call = [c \in Calls |-> Idle]
  /\ cmd = [c \in Calls |-> NoCommand]

\* f, with the tables d seen by the commands that run.
Seen(f, d) ==
  [c \in Calls |-> IF f[c].code = "runs"
     THEN [f[c] EXCEPT !.always = @ \cap LiveEntries(d), !.ever = @ \cup LiveEntries(d)]
     ELSE f[c]]

Start(c, command) ==
  /\ cmd[c] = NoCommand
  /\ cmd' = [cmd EXCEPT ![c] = command]
  /\ UNCHANGED <<db, call>>

Ends(c, ok) == [cmd EXCEPT ![c].code = IF ok THEN "ok" ELSE "failed"]

(***************************************************************************)
(* entry create and token generate.                                        *)
(***************************************************************************)
\* parseFile ignores the error of Unmarshal, which has set nothing when the file is no JSON.
ParseFile(f) == IF f = Malformed THEN <<>> ELSE f

\* parseFile or parseConfig, which may fail (there is no such file, a selector has no colon).
RunCreate(c, f) ==
  \/ Start(c, [Command("create") EXCEPT !.file = ParseFile(f),
                                       !.code = IF ParseFile(f) = <<>> THEN "ok" ELSE "runs"])
  \/ Start(c, [Command("create") EXCEPT !.code = "failed"])

\* Run of token generate, up to createToken; the uuid is new.
RunGenerate(c, t, ttl) ==
  /\ cmd[c] = NoCommand /\ db.token[t].row = "none"
  /\ LET result == CreateJoinToken(t, ttl)
     IN /\ db' = result.db
        /\ \E i \in Ids \cup {None} :
             cmd' = [cmd EXCEPT ![c] =
               [Command("generate") EXCEPT
                  !.code  = IF result.err THEN "failed" ELSE IF i = None THEN "ok" ELSE "runs",
                  !.token = IF result.err THEN None ELSE t,
                  !.file  = IF result.err \/ i = None THEN <<>>
                            ELSE <<[spiffe |-> i, parent |-> AgentId[t],
                                    selectors |-> <<AgentSelector[t]>>]>>]]
  /\ UNCHANGED call

\* registerEntries, and createVanityRecord: the next entry is sent, ...
Send(c) ==
  /\ Running(c) /\ cmd[c].sent < Len(cmd[c].file)
  /\ CreateEntry(c, cmd[c].file[cmd[c].sent + 1])
  /\ UNCHANGED cmd

\* Buggy: an entry that could not be created is skipped.
CreatedOrSkipped(c) ==
  /\ Running(c) /\ call[c] # Idle /\ call[c].pc = "done"
  /\ call' = [call EXCEPT ![c] = Idle]
  /\ cmd' = [cmd EXCEPT ![c].sent = @ + 1,
                        ![c].code = IF cmd[c].sent + 1 = Len(cmd[c].file) THEN "ok" ELSE "runs"]
  /\ UNCHANGED db

\* ... and the first that is refused ends the command.
Created(c) ==
  /\ Running(c) /\ call[c] # Idle /\ call[c].pc = "done"
  /\ call' = [call EXCEPT ![c] = Idle]
  /\ IF call[c].ok
       THEN cmd' = [cmd EXCEPT ![c].sent = @ + 1,
                      ![c].code = IF cmd[c].sent + 1 = Len(cmd[c].file) THEN "ok" ELSE "runs"]
       ELSE cmd' = Ends(c, FALSE)
  /\ UNCHANGED db

(***************************************************************************)
(* entry show.                                                             *)
(***************************************************************************)
By(how, key) == IF key = None THEN <<>> ELSE <<[by |-> how, key |-> key]>>

\* The calls that Run makes, in their order.
Lookups(q) ==
  IF q.entry # None THEN By("entry", q.entry)
  ELSE IF q = NoQuery THEN By("all", {})
  ELSE By("parent", q.parent) \o By("spiffe", q.spiffe)
         \o [i \in DOMAIN q.selectors |-> [by |-> "selector", key |-> q.selectors[i]]]

\* parseSelector: everything after the first colon is the value.
ParseSelector(flag) == flag # BadFlag

\* What a call returns.  FetchEntry has no entry to send when there is none.
Answer(l) ==
  CASE l.by = "entry"  -> [res |-> FetchRegistrationEntry(db, l.key),
                           err |-> FetchRegistrationEntry(db, l.key) = {}]
    [] l.by = "all"    -> [res |-> FetchRegistrationEntries(db), err |-> FALSE]
    [] l.by = "parent" -> [res |-> ListParentIDEntries(db, l.key), err |-> FALSE]
    [] l.by = "spiffe" -> [res |-> ListSpiffeEntries(db, l.key), err |-> FALSE]
    [] OTHER -> IF ~ParseSelector(l.key) THEN [res |-> {}, err |-> TRUE]
                ELSE LET r == ListSelectorEntries(db, <<l.key>>)
                     IN [res |-> r.res, err |-> r.err]

\* Buggy: an entry that has one of the SPIFFE IDs asked for is kept.
FilteredLoosely(shown, q) ==
  {e \in shown :
     /\ \A i \in DOMAIN q.selectors : q.selectors[i] \in SelectorsOf(db, e)
     /\ \/ q.spiffe \in {None, db.entry[e].spiffe}
        \/ q.parent \in {None, db.entry[e].parent}}

\* hasSelectors: the entry has all the selectors of the flags.
HasSelectors(e, flags) == \A i \in DOMAIN flags : flags[i] \in SelectorsOf(db, e)

\* filterEntries.
Filtered(shown, q) ==
  {e \in shown :
     /\ HasSelectors(e, q.selectors)
     /\ q.spiffe \in {None, db.entry[e].spiffe}
     /\ q.parent \in {None, db.entry[e].parent}}

\* loadConfig.  (Run does not call Validate: an entry id can be combined with other flags,
\* which are then ignored.)
RunShow(c, q) == Start(c, [Command("show") EXCEPT !.query = q, !.left = Lookups(q)])

Lookup(c) ==
  /\ Running(c) /\ cmd[c].left # <<>>
  /\ LET answer == Answer(Head(cmd[c].left))
         found  == cmd[c].shown \cup answer.res
         last   == Len(cmd[c].left) = 1
         whole  == cmd[c].query = NoQuery \/ cmd[c].query.entry # None
     IN cmd' = IF answer.err THEN Ends(c, FALSE)
               ELSE [cmd EXCEPT ![c].left  = Tail(@),
                                ![c].code  = IF last THEN "ok" ELSE "runs",
                                ![c].shown = IF last /\ ~whole THEN Filtered(found, cmd[c].query)
                                             ELSE found]
  /\ UNCHANGED <<db, call>>

(***************************************************************************)
(* entry delete and bundle show.                                           *)
(***************************************************************************)
\* DeleteRegistrationEntry reads the entry ...
RunDelete(c, e) ==
  IF e \in LiveEntries(db)
    THEN Start(c, [Command("delete") EXCEPT !.target = e])
    ELSE Start(c, [Command("delete") EXCEPT !.target = e, !.code = "failed"])

\* ... and marks it as deleted, without a lock in between: two commands may delete it.
MarkDeleted(c) ==
  /\ Running(c) /\ cmd[c].target # None
  /\ DeleteEntry(cmd[c].target)
  /\ cmd' = Seen(Ends(c, TRUE), db')

\* FetchBundle is the only call.
RunShowBundle(c, d) ==
  Start(c, [Command("bundle") EXCEPT !.code = IF FetchBundle(db, d).err THEN "failed" ELSE "ok"])

\* The server's part of a call of c.
Serve(c) ==
  \/ CheckUnique(c) /\ UNCHANGED cmd
  \/ StoreFails(c) /\ UNCHANGED cmd
  \/ StoreNewEntry(c) /\ cmd' = Seen(cmd, db')

Next ==
  \E c \in Calls :
    \/ \E f \in Files : RunCreate(c, f)
    \/ \E t \in Tokens, ttl \in Ttls : RunGenerate(c, t, ttl)
    \/ \E q \in Queries : RunShow(c, q)
    \/ \E e \in EntryIds : RunDelete(c, e)
    \/ \E d \in Domains : RunShowBundle(c, d)
    \/ Send(c) \/ Serve(c) \/ Created(c) \/ Lookup(c) \/ MarkDeleted(c)

Spec == Init /\ [][Next]_vars

(***************************************************************************)
(* Properties.                                                             *)
(***************************************************************************)
\* The tables, the calls and the commands have their types.
TypeOK ==
  /\ db \in DB
  /\ CallsOK
  /\ \A c \in Calls : /\ cmd[c].code \in {"none", "runs", "ok", "failed"}
                      /\ Running(c) => /\ cmd[c].always \subseteq cmd[c].ever
                                       /\ cmd[c].sent \in 0..Len(cmd[c].file)

IsEntry(e, r) ==
  /\ db.entry[e].spiffe = r.spiffe /\ db.entry[e].parent = r.parent
  /\ SelectorsOf(db, e) = Elements(r.selectors)

\* The entries that entry create has parsed, and the record of token generate, are created in
\* their order up to where the command stops: each one that was answered with success was
\* there while the command ran, and code 0 means that all were.  (From a malformed data file
\* none is parsed, so that the code is 0 and nothing was created.)
CreatedInOrder ==
  \A c \in Calls : cmd[c].name \in {"create", "generate"} =>
    /\ \A i \in 1..cmd[c].sent : \E e \in cmd[c].ever : IsEntry(e, cmd[c].file[i])
    /\ cmd[c].code = "ok" => cmd[c].sent = Len(cmd[c].file)

Matches(q) ==
  IF q.entry # None THEN {q.entry}
  ELSE {e \in EntryIds : /\ Elements(q.selectors) \subseteq SelectorsOf(db, e)
                         /\ q.spiffe # None => q.spiffe = db.entry[e].spiffe
                         /\ q.parent # None => q.parent = db.entry[e].parent}

\* entry show, which puts its answer together from several calls, shows entries that were
\* there at some moment while it ran and match all flags; and unless selectors are the only
\* flags, it shows all that match and were there all the time.
ShowIsExact ==
  \A c \in Calls : cmd[c].name = "show" /\ cmd[c].code = "ok" =>
    LET q == cmd[c].query IN
    /\ cmd[c].shown \subseteq Matches(q) \cap cmd[c].ever
    /\ (q.selectors = <<>> \/ q.parent # None \/ q.spiffe # None) =>
         Matches(q) \cap cmd[c].always \subseteq cmd[c].shown

================================================================================
