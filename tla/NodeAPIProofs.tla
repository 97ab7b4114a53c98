---------------------------- MODULE NodeAPIProofs ----------------------------
(***************************************************************************)
(* The node API, for any number of concurrent calls, tokens, agents,       *)
(* entries and failures: the shape of its state, that a join token attests *)
(* one agent, and that an SVID is signed for a registered workload only.   *)
(***************************************************************************)
EXTENDS NodeAPI, TLAPS

(***************************************************************************)
(* Shapes of the state.                                                    *)
(***************************************************************************)
Tables == {"token", "node", "resolver", "entry", "selector", "bundle"}

BaseFields ==
  {"pc", "token", "id", "awaited", "before", "serial", "todo", "combinations", "entries"}
StreamFields ==
  {"pc", "id", "peer", "csrs", "serial", "combinations", "entries", "svids", "awaited", "possible"}

\* A FetchBaseSVID call with a join token does not update a row.
IsBase(r) ==
  /\ DOMAIN r = BaseFields
  /\ r.pc \in {"isAttested", "attest", "fetchToken", "expired", "deleteToken", "store",
               "resolve", "matching", "bundle", "respond"}
  /\ r.token \in Tokens \cup {"plugin"}
  /\ r.id \in Agents /\ r.awaited \in BOOLEAN
  /\ r.token # "plugin" => r.before = FALSE
  /\ r.pc = "attest" => r.token = "plugin"
  /\ r.pc \in {"fetchToken", "expired", "deleteToken"} => r.token # "plugin"

IsStreamed(r) ==
  /\ DOMAIN r = StreamFields
  /\ r.pc \in {"recv", "stored", "matching", "csrs", "update", "bundle", "respond"}
  /\ r.id \in Ids /\ r.serial \in Nat

IsCall(r) == r = Idle \/ IsBase(r) \/ IsStreamed(r)

ShapeInv ==
  /\ DOMAIN db = Tables
  /\ db.node \in [Ids -> [row: Row, serial: Nat]]
  /\ last \in Nat
  /\ DOMAIN call = Calls
  /\ call = [c \in Calls |-> call[c]]
  /\ \A c \in Calls : IsCall(call[c])
  /\ granted \in [Tokens -> Nat]

(***************************************************************************)
(* A token's agent has at most one row, and the call that made the row is  *)
(* the only one that can answer.                                           *)
(***************************************************************************)
Answering(r) ==
  /\ IsBase(r) /\ r.token # "plugin"
  /\ r.pc \in {"resolve", "matching", "bundle", "respond"}

HasRow(i) == db.node[i].row # "none"

TokenInv ==
  /\ ShapeInv
  /\ \A c \in Calls : IsBase(call[c]) /\ call[c].token # "plugin" /\ call[c].pc = "store" =>
       call[c].id = AgentOf[call[c].token]
  /\ \A c \in Calls : Answering(call[c]) =>
       /\ call[c].id = AgentOf[call[c].token]
       /\ HasRow(call[c].id)
       /\ granted[call[c].token] = 0
  /\ \A c, d \in Calls :
       Answering(call[c]) /\ Answering(call[d]) /\ call[c].token = call[d].token => c = d
  /\ \A t \in Tokens : granted[t] = 0 \/ (granted[t] = 1 /\ HasRow(AgentOf[t]))

LEMMA TokenInit == Init => TokenInv
  <1> SUFFICES ASSUME Init PROVE TokenInv
    BY Zenon
  <1> USE NodeAssumption
  <1>1. DOMAIN db = Tables /\ db.node = [i \in Ids |-> [row |-> "none", serial |-> 0]]
    BY Zenon DEF Init, AppendBundle, CreateBundle, EmptyDB, Return, Fail, Tables
  <1>2. \A c \in Calls : call[c] = Idle /\ ~IsBase(call[c])
    BY Zenon DEF Init, Idle, IsBase
  <1>3. ShapeInv
    BY <1>1, <1>2 DEF Init, ShapeInv, IsCall, Row
  <1> QED
    BY Zenon, <1>2, <1>3 DEF Init, TokenInv, Answering

LEMMA AnsweredToken ==
  \A r : Answering(r) => r.token \in Tokens /\ r.id \in Ids
  BY Zenon, NodeAssumption DEF Answering, IsBase

\* A step of one call that makes no row and answers nobody.
SameRows ==
  /\ DOMAIN db' = Tables
  /\ db'.node \in [Ids -> [row: Row, serial: Nat]]
  /\ \A i \in Ids : db'.node[i].row = db.node[i].row

LEMMA OneCallRows ==
  ASSUME TokenInv, NEW c \in Calls, NEW r, IsCall(r), call' = [call EXCEPT ![c] = r],
         SameRows, last' \in Nat, granted' = granted,
         IsBase(r) /\ r.token # "plugin" /\ r.pc = "store" => r.id = AgentOf[r.token],
         Answering(r) => /\ Answering(call[c])
                         /\ r.token = call[c].token /\ r.id = call[c].id
  PROVE  TokenInv'
  <1>1. \A d \in Calls : call'[d] = IF d = c THEN r ELSE call[d]
    BY Zenon DEF TokenInv, ShapeInv
  <1>2. ShapeInv'
    <2>1. \A d \in Calls : IsCall(call'[d])
      BY Zenon, <1>1 DEF TokenInv, ShapeInv
    <2>2. DOMAIN call' = Calls /\ call' = [d \in Calls |-> call'[d]]
      BY Zenon DEF TokenInv, ShapeInv
    <2> QED
      BY Zenon, <2>1, <2>2 DEF TokenInv, ShapeInv, IsCall, IsBase, IsStreamed, SameRows
  <1>3. \A d \in Calls : Answering(call'[d]) =>
          /\ Answering(call[d])
          /\ call'[d].token = call[d].token /\ call'[d].id = call[d].id
    BY Zenon, <1>1
  <1>4. \A d \in Calls :
          (IsBase(call'[d]) /\ call'[d].token # "plugin" /\ call'[d].pc = "store")
            => call'[d].id = AgentOf[call'[d].token]
    BY <1>1 DEF TokenInv
  <1>5. \A i \in Ids : HasRow(i)' <=> HasRow(i)
    BY Zenon DEF HasRow, SameRows
  <1>6. \A d \in Calls : Answering(call'[d]) =>
          /\ call'[d].id = AgentOf[call'[d].token] /\ call'[d].id \in Ids
          /\ HasRow(call'[d].id) /\ granted'[call'[d].token] = 0
    <2>1. \A d \in Calls : Answering(call[d]) =>
            /\ call[d].id = AgentOf[call[d].token] /\ HasRow(call[d].id)
            /\ granted[call[d].token] = 0
      BY Zenon DEF TokenInv
    <2> QED
      BY <1>3, <2>1, AnsweredToken
  <1>7. \A d, e \in Calls :
          Answering(call'[d]) /\ Answering(call'[e]) /\ call'[d].token = call'[e].token => d = e
    BY SMTT(30), <1>3 DEF TokenInv
  <1>8. \A t \in Tokens : granted'[t] = 0 \/ (granted'[t] = 1 /\ HasRow(AgentOf[t])')
    BY Zenon, <1>5, NodeAssumption DEF TokenInv
  <1>9. \A d \in Calls : Answering(call'[d]) => db'.node[call'[d].id].row # "none"
    BY <1>6 DEF HasRow, SameRows
  <1> QED
    BY ZenonT(60), <1>2, <1>4, <1>6, <1>7, <1>8, <1>9 DEF TokenInv, HasRow, Answering, IsBase

LEMMA OneCall ==
  ASSUME TokenInv, NEW c \in Calls, NEW r, IsCall(r), call' = [call EXCEPT ![c] = r],
         DOMAIN db' = Tables, db'.node = db.node, last' \in Nat, granted' = granted,
         IsBase(r) /\ r.token # "plugin" /\ r.pc = "store" => r.id = AgentOf[r.token],
         Answering(r) => /\ Answering(call[c])
                         /\ r.token = call[c].token /\ r.id = call[c].id
  PROVE  TokenInv'
  <1>1. SameRows
    BY Zenon DEF SameRows, TokenInv, ShapeInv
  <1> QED
    BY Zenon, <1>1, OneCallRows

LEMMA Shapes ==
  ASSUME TokenInv, NEW c \in Calls
  PROVE  /\ call[c] = Idle \/ IsBase(call[c]) \/ IsStreamed(call[c])
         /\ call[c] # Idle => IsBase(call[c]) \/ IsStreamed(call[c])
         /\ IsStreamed(call[c]) <=> IsStream(c)
         /\ DOMAIN db = Tables /\ last \in Nat
         /\ ~(IsBase(call[c]) /\ IsStreamed(call[c]))
  <1>1. DOMAIN Idle = {"pc"}
    BY Zenon DEF Idle
  <1>2. IsCall(call[c]) /\ DOMAIN db = Tables /\ last \in Nat
    BY Zenon DEF TokenInv, ShapeInv
  <1>3. "peer" \in StreamFields /\ "peer" \notin BaseFields /\ "peer" \notin {"pc"}
    BY Zenon DEF StreamFields, BaseFields
  <1> QED
    BY Zenon, <1>1, <1>2, <1>3 DEF IsCall, IsBase, IsStreamed, IsStream

\* Positions that only one kind of call has.
LEMMA InBase ==
  ASSUME TokenInv, NEW c \in Calls,
         call[c].pc \in {"isAttested", "attest", "fetchToken", "expired", "deleteToken", "store", "resolve"}
  PROVE  IsBase(call[c])
  <1>1. call[c] # Idle
    BY DEF Idle
  <1>2. ~IsStreamed(call[c])
    BY Zenon DEF IsStreamed
  <1> QED
    BY Zenon, <1>1, <1>2, Shapes

LEMMA InStream ==
  ASSUME TokenInv, NEW c \in Calls,
         call[c].pc \in {"recv", "stored", "csrs", "update"} \/ IsStream(c)
  PROVE  IsStreamed(call[c])
  <1>1. CASE IsStream(c)
    BY Zenon, <1>1, Shapes
  <1>2. CASE call[c].pc \in {"recv", "stored", "csrs", "update"}
    <2>1. call[c] # Idle
      BY <1>2 DEF Idle
    <2>2. ~IsBase(call[c])
      BY Zenon, <1>2 DEF IsBase
    <2> QED
      BY Zenon, <2>1, <2>2, Shapes
  <1> QED
    BY Zenon, <1>1, <1>2

LEMMA Ends ==
  ASSUME TokenInv, NEW c \in Calls, End(c), DOMAIN db' = Tables, db'.node = db.node,
         last' \in Nat, granted' = granted
  PROVE  TokenInv'
  <1>1. IsCall(Idle) /\ ~IsBase(Idle) /\ ~Answering(Idle)
    BY Zenon DEF IsCall, IsBase, Answering, Idle
  <1> QED
    BY Zenon, <1>1, OneCall DEF End

\* A step within a stream.
LEMMA Streams ==
  ASSUME TokenInv, NEW c \in Calls, NEW r, IsStreamed(r), call' = [call EXCEPT ![c] = r],
         DOMAIN db' = Tables, db'.node = db.node, last' \in Nat, granted' = granted
  PROVE  TokenInv'
  <1>1. "peer" \in StreamFields /\ "peer" \notin BaseFields
    BY Zenon DEF StreamFields, BaseFields
  <1>2. IsCall(r) /\ ~IsBase(r) /\ ~Answering(r)
    BY Zenon, <1>1 DEF IsCall, IsBase, IsStreamed, Answering
  <1> QED
    BY Zenon, <1>2, OneCall

\* A step within a FetchBaseSVID call, before or after its row is made.
LEMMA Bases ==
  ASSUME TokenInv, NEW c \in Calls, IsBase(call[c]), NEW r, IsBase(r),
         r.token = call[c].token, r.id = call[c].id,
         call' = [call EXCEPT ![c] = r],
         DOMAIN db' = Tables, db'.node = db.node, last' \in Nat, granted' = granted,
         r.pc = "store" /\ r.token # "plugin" => r.id = AgentOf[r.token],
         r.pc \in {"resolve", "matching", "bundle", "respond"} =>
           call[c].pc \in {"resolve", "matching", "bundle", "respond"}
  PROVE  TokenInv'
  BY Zenon, OneCall DEF IsCall, Answering

\* The rows of the attested nodes are written by two calls of the data store only.
LEMMA OtherTables ==
  ASSUME DOMAIN db = Tables
  PROVE  /\ \A t \in Tokens : DOMAIN DeleteToken(db, t).db = Tables /\ DeleteToken(db, t).db.node = db.node
         /\ \A t \in Tokens, x \in Nat : /\ DOMAIN RegisterToken(db, t, x).db = Tables
                                         /\ RegisterToken(db, t, x).db.node = db.node
         /\ \A i \in Ids, s \in Selectors : /\ DOMAIN CreateNodeResolverMapEntry(db, i, s).db = Tables
                                            /\ CreateNodeResolverMapEntry(db, i, s).db.node = db.node
         /\ \A e \in EntryIds : /\ DOMAIN DeleteRegistrationEntry(db, e).db = Tables
                                /\ DeleteRegistrationEntry(db, e).db.node = db.node
         /\ \A q : \A e \in EntryIds : /\ DOMAIN CreateRegistrationEntry(db, e, q).db = Tables
                                       /\ CreateRegistrationEntry(db, e, q).db.node = db.node
  <1> USE DEF Tables, Return, Fail
  <1>1. \A t \in Tokens : DOMAIN DeleteToken(db, t).db = Tables /\ DeleteToken(db, t).db.node = db.node
    BY Zenon DEF DeleteToken
  <1>2. \A t \in Tokens, x \in Nat : /\ DOMAIN RegisterToken(db, t, x).db = Tables
                                     /\ RegisterToken(db, t, x).db.node = db.node
    BY Zenon DEF RegisterToken
  <1>3. \A i \in Ids, s \in Selectors : /\ DOMAIN CreateNodeResolverMapEntry(db, i, s).db = Tables
                                        /\ CreateNodeResolverMapEntry(db, i, s).db.node = db.node
    BY Zenon DEF CreateNodeResolverMapEntry
  <1>4. \A e \in EntryIds : /\ DOMAIN DeleteRegistrationEntry(db, e).db = Tables
                            /\ DeleteRegistrationEntry(db, e).db.node = db.node
    BY Zenon DEF DeleteRegistrationEntry
  <1>5. \A q : \A e \in EntryIds : /\ DOMAIN CreateRegistrationEntry(db, e, q).db = Tables
                                   /\ CreateRegistrationEntry(db, e, q).db.node = db.node
    BY Zenon DEF CreateRegistrationEntry, StoreEntry
  <1> QED
    BY Zenon, <1>1, <1>2, <1>3, <1>4, <1>5

\* Goto in a FetchBaseSVID call.
LEMMA Gotos ==
  ASSUME TokenInv, NEW c \in Calls, IsBase(call[c]),
         NEW pc \in {"fetchToken", "expired", "deleteToken", "store", "bundle", "respond"}, Goto(c, pc),
         DOMAIN db' = Tables, db'.node = db.node, last' \in Nat, granted' = granted,
         pc \in {"fetchToken", "expired", "deleteToken"} => call[c].token # "plugin",
         pc = "store" /\ call[c].token # "plugin" => call[c].id = AgentOf[call[c].token],
         pc \in {"bundle", "respond"} => call[c].pc \in {"resolve", "matching", "bundle", "respond"}
  PROVE  TokenInv'
  <1> DEFINE r == [call[c] EXCEPT !.pc = pc]
  <1>1. call' = [call EXCEPT ![c] = r]
    BY Zenon DEF Goto
  <1>2. IsBase(r) /\ r.pc = pc /\ r.token = call[c].token /\ r.id = call[c].id
    BY Zenon DEF IsBase, BaseFields
  <1> HIDE DEF r
  <1> QED
    BY ZenonT(60), <1>1, <1>2, Bases

LEMMA TokenFetchBaseSVID ==
  ASSUME TokenInv, NEW c \in Calls, FetchBaseSVID(c)
  PROVE  TokenInv'
  <1>1. PICK i \in Agents, t \in Tokens \cup {"plugin"} :
          call' = [call EXCEPT ![c] =
            [pc |-> "isAttested", token |-> t, id |-> i, awaited |-> TRUE, before |-> FALSE,
             serial |-> 0, todo |-> {}, combinations |-> {}, entries |-> {}]]
    BY Zenon DEF FetchBaseSVID
  <1> DEFINE r == [pc |-> "isAttested", token |-> t, id |-> i, awaited |-> TRUE, before |-> FALSE,
                   serial |-> 0, todo |-> {}, combinations |-> {}, entries |-> {}]
  <1>2. IsBase(r) /\ r.pc = "isAttested"
    BY Zenon DEF IsBase, BaseFields
  <1>3. db' = db /\ last' = last /\ granted' = granted
    BY Zenon DEF FetchBaseSVID, Rest
  <1> HIDE DEF r
  <1> QED
    BY Zenon, <1>1, <1>2, <1>3, Shapes, OneCall DEF r, IsCall, Answering

LEMMA TokenIsAttested ==
  ASSUME TokenInv, NEW c \in Calls, IsAttested(c)
  PROVE  TokenInv'
  <1> DEFINE before == FetchAttestedNodeEntry(db, call[c].id) # {}
  <1>1. IsBase(call[c]) /\ DOMAIN db = Tables /\ last \in Nat
    BY Zenon, Shapes, InBase DEF IsAttested, At
  <1>2. db' = db /\ last' = last /\ granted' = granted
    BY Zenon DEF IsAttested, Rest
  <1>3. CASE call[c].token = "plugin" /\ call' = [call EXCEPT ![c].pc = "attest", ![c].before = before]
    <2> DEFINE r == [call[c] EXCEPT !.pc = "attest", !.before = before]
    <2>1. call' = [call EXCEPT ![c] = r]
      BY Zenon, <1>3
    <2> HIDE DEF before
    <2>2. IsBase(r) /\ r.pc = "attest" /\ r.token = "plugin" /\ r.id = call[c].id
      BY Zenon, <1>1, <1>3 DEF IsBase, BaseFields
    <2> HIDE DEF r
    <2> QED
      BY Zenon, <1>1, <1>2, <1>3, <2>1, <2>2, Bases
  <1>4. CASE Goto(c, "fetchToken") /\ call[c].token # "plugin"
    BY Zenon, <1>1, <1>2, <1>4, Gotos
  <1>5. CASE End(c)
    BY Zenon, <1>1, <1>2, <1>5, Ends
  <1> QED
    BY Zenon, <1>3, <1>4, <1>5 DEF IsAttested

LEMMA TokenAttest ==
  ASSUME TokenInv, NEW c \in Calls, Attest(c)
  PROVE  TokenInv'
  <1>1. IsBase(call[c]) /\ DOMAIN db = Tables /\ last \in Nat
    BY Zenon, Shapes, InBase DEF Attest, At
  <1>t. call[c].token = "plugin"
    BY Zenon, <1>1 DEF Attest, At, IsBase
  <1>2. db' = db /\ last' = last /\ granted' = granted
    BY Zenon DEF Attest, Rest
  <1>3. CASE Goto(c, "store")
    BY Zenon, <1>1, <1>t, <1>2, <1>3, Gotos
  <1>4. CASE End(c)
    BY Zenon, <1>1, <1>2, <1>4, Ends
  <1> QED
    BY Zenon, <1>3, <1>4 DEF Attest

LEMMA TokenFetchJoinToken ==
  ASSUME TokenInv, NEW c \in Calls, FetchJoinToken(c)
  PROVE  TokenInv'
  <1>1. IsBase(call[c]) /\ DOMAIN db = Tables /\ last \in Nat
    BY Zenon, Shapes, InBase DEF FetchJoinToken, At
  <1>t. call[c].token # "plugin"
    BY Zenon, <1>1 DEF FetchJoinToken, At, IsBase
  <1>2. db' = db /\ last' = last /\ granted' = granted
    BY Zenon DEF FetchJoinToken, Rest
  <1>3. End(c) \/ Goto(c, "expired") \/ Goto(c, "deleteToken")
    BY Zenon DEF FetchJoinToken
  <1> QED
    BY Zenon, <1>1, <1>t, <1>2, <1>3, Ends, Gotos

LEMMA TokenDeleteJoinToken ==
  ASSUME TokenInv, NEW c \in Calls, DeleteJoinToken(c)
  PROVE  TokenInv'
  <1>1. IsBase(call[c]) /\ DOMAIN db = Tables /\ last \in Nat
    BY Zenon, Shapes, InBase DEF DeleteJoinToken, At
  <1>t. call[c].token \in Tokens
    BY Zenon, <1>1 DEF DeleteJoinToken, IsBase
  <1>2. DOMAIN db' = Tables /\ db'.node = db.node /\ last' = last /\ granted' = granted
    BY <1>1, <1>t, OtherTables DEF DeleteJoinToken
  <1>3. \/ Goto(c, "store") /\ AgentOf[call[c].token] = call[c].id
        \/ End(c)
    BY Zenon DEF DeleteJoinToken
  <1> QED
    BY Zenon, <1>1, <1>t, <1>2, <1>3, Ends, Gotos

\* Of all calls with a token, createAttestationEntry succeeds for one.
LEMMA TokenStoreAttestation ==
  ASSUME TokenInv, NEW c \in Calls, StoreAttestation(c)
  PROVE  TokenInv'
  <1> USE NodeAssumption
  <1> DEFINE i == call[c].id
             r == IF call[c].before THEN UpdateAttestedNodeEntry(db, i, last + 1)
                                    ELSE CreateAttestedNodeEntry(db, i, last + 1)
             a == [call[c] EXCEPT !.pc = "resolve", !.serial = last', !.todo = Resolved[i]]
  <1>1. IsBase(call[c]) /\ DOMAIN db = Tables /\ last \in Nat /\ call[c].pc = "store"
    BY Zenon, Shapes, InBase DEF StoreAttestation, At
  <1>2. i \in Ids /\ db.node \in [Ids -> [row: Row, serial: Nat]]
    BY Zenon, <1>1 DEF IsBase, TokenInv, ShapeInv
  <1>3. db' = r.db /\ last' = last + 1 /\ last' \in Nat /\ granted' = granted
    BY <1>1 DEF StoreAttestation, Rest
  <1>4. CASE r.err /\ End(c)
    <2>1. r.db = db
      BY Zenon, <1>4 DEF UpdateAttestedNodeEntry, CreateAttestedNodeEntry, Return, Fail
    <2> QED
      BY <1>1, <1>3, <1>4, <2>1, Ends
  <1>5. CASE ~r.err /\ call' = [call EXCEPT ![c] = a]
    <2>1. IsBase(a) /\ a.pc = "resolve" /\ a.token = call[c].token /\ a.id = i
      BY Zenon, <1>1 DEF IsBase, BaseFields
    <2>2. /\ DOMAIN db' = Tables /\ db'.node \in [Ids -> [row: Row, serial: Nat]]
          /\ \A j \in Ids : HasRow(j)' <=> HasRow(j) \/ j = i
          /\ ~call[c].before => ~HasRow(i)
      <3>1. CASE call[c].before
        <4>1. db.node[i].row = "live" /\ db' = [db EXCEPT !.node[i].serial = last + 1]
          BY Zenon, <1>3, <1>5, <3>1 DEF UpdateAttestedNodeEntry, Return, Fail
        <4>2. DOMAIN db' = Tables /\ db'.node = [db.node EXCEPT ![i].serial = last + 1]
          BY Zenon, <1>1, <4>1 DEF Tables
        <4>3. \A j \in Ids : db'.node[j].row = db.node[j].row
          BY <1>2, <4>2
        <4>4. db'.node \in [Ids -> [row: Row, serial: Nat]]
          BY <1>1, <1>2, <4>2
        <4>5. HasRow(i) /\ \A j \in Ids : HasRow(j)' <=> HasRow(j)
          BY Zenon, <1>2, <4>1, <4>3 DEF HasRow
        <4> QED
          BY Zenon, <3>1, <4>2, <4>4, <4>5
      <3>2. CASE ~call[c].before
        BY Zenon, <1>1, <1>2, <1>3, <1>5, <3>2
           DEF CreateAttestedNodeEntry, Return, Fail, HasRow, Row, Tables
      <3> QED
        BY Zenon, <3>1, <3>2
    <2> HIDE DEF r, a
    <2>3. \A d \in Calls : call'[d] = IF d = c THEN a ELSE call[d]
      BY Zenon, <1>5 DEF TokenInv, ShapeInv
    <2>4. ShapeInv'
      <3>1. \A d \in Calls : IsCall(call'[d])
        BY <2>1, <2>3 DEF TokenInv, ShapeInv, IsCall
      <3>2. DOMAIN call' = Calls /\ call' = [d \in Calls |-> call'[d]]
        BY <1>5 DEF TokenInv, ShapeInv
      <3> QED
        BY Zenon, <1>3, <2>2, <3>1, <3>2 DEF TokenInv, ShapeInv, IsCall, IsBase, IsStreamed
    <2>5. Answering(a) => /\ i = AgentOf[a.token] /\ ~HasRow(i)
                          /\ a.token \in Tokens
      BY Zenon, <1>1, <2>1, <2>2 DEF Answering, IsBase, TokenInv
    <2>6. \A d \in Calls : d # c /\ Answering(call[d]) /\ Answering(a) => call[d].token # a.token
      <3>1. \A d \in Calls : Answering(call[d]) => call[d].id = AgentOf[call[d].token] /\ HasRow(call[d].id)
        BY Zenon DEF TokenInv
      <3> QED
        BY <2>5, <3>1
    <2>7. Answering(a) => granted[a.token] = 0
      BY Zenon, <2>5 DEF TokenInv
    <2>8. \A t \in Tokens : AgentOf[t] \in Ids
      BY Zenon
    <2>9. \A d \in Calls : Answering(call[d]) => call[d].id \in Ids
      BY Zenon DEF Answering, IsBase
    <2>10. \A x : (IsBase(x) <=> IsBase(x)') /\ (Answering(x) <=> Answering(x)')
      BY Zenon DEF Answering, IsBase
    <2>11. \A d \in Calls : Answering(call'[d]) =>
             /\ call'[d].id = AgentOf[call'[d].token]
             /\ db'.node[call'[d].id].row # "none" /\ granted'[call'[d].token] = 0
      <3> SUFFICES ASSUME NEW d \in Calls, Answering(call'[d])
                   PROVE  /\ call'[d].id = AgentOf[call'[d].token]
                          /\ db'.node[call'[d].id].row # "none" /\ granted'[call'[d].token] = 0
        BY Zenon
      <3>1. CASE d = c
        BY ZenonT(60), <1>2, <1>3, <2>1, <2>2, <2>3, <2>5, <2>7, <3>1 DEF HasRow
      <3>2. CASE d # c
        <4>1. Answering(call[d]) /\ call'[d] = call[d]
          BY Zenon, <2>3, <3>2
        <4>2. /\ call[d].id = AgentOf[call[d].token] /\ HasRow(call[d].id)
              /\ granted[call[d].token] = 0
          BY Zenon, <4>1 DEF TokenInv
        <4> QED
          BY Zenon, <1>3, <2>2, <2>9, <4>1, <4>2 DEF HasRow
      <3> QED
        BY Zenon, <3>1, <3>2
    <2>12. \A d, e \in Calls :
             Answering(call'[d]) /\ Answering(call'[e]) /\ call'[d].token = call'[e].token => d = e
      BY <2>3, <2>6 DEF TokenInv
    <2>13. \A t \in Tokens : granted'[t] = 0 \/ (granted'[t] = 1 /\ db'.node[AgentOf[t]].row # "none")
      BY Zenon, <1>3, <2>2, <2>8 DEF TokenInv, HasRow
    <2>14. \A d \in Calls :
             (IsBase(call'[d]) /\ call'[d].token # "plugin" /\ call'[d].pc = "store")
               => call'[d].id = AgentOf[call'[d].token]
      BY <2>1, <2>3 DEF TokenInv
    <2> QED
      BY ZenonT(60), <2>4, <2>11, <2>12, <2>13, <2>14 DEF TokenInv, HasRow, Answering, IsBase
  <1>6. (r.err /\ End(c)) \/ (~r.err /\ call' = [call EXCEPT ![c] = a])
    BY ZenonT(60) DEF StoreAttestation
  <1> QED
    BY Zenon, <1>4, <1>5, <1>6

\* The steps of a FetchBaseSVID call after its row is made, and those it shares with FetchSVID.
LEMMA TokenResolveSelector ==
  ASSUME TokenInv, NEW c \in Calls, ResolveSelector(c)
  PROVE  TokenInv'
  <1>1. IsBase(call[c]) /\ DOMAIN db = Tables /\ last \in Nat /\ call[c].pc = "resolve"
    BY Zenon, Shapes, InBase DEF ResolveSelector, At
  <1>2. last' = last /\ granted' = granted
    BY Zenon DEF ResolveSelector, Rest
  <1>3. PICK s \in call[c].todo :
          LET q == CreateNodeResolverMapEntry(db, call[c].id, s) IN
          /\ db' = q.db
          /\ IF q.err THEN End(c) ELSE call' = [call EXCEPT ![c].todo = call[c].todo \ {s}]
    BY Zenon DEF ResolveSelector
  <1>4. DOMAIN db' = Tables /\ db'.node = db.node
    BY <1>1, <1>3 DEF CreateNodeResolverMapEntry, Return, Fail, Tables
  <1>5. CASE End(c)
    BY Zenon, <1>1, <1>2, <1>4, <1>5, Ends
  <1>6. CASE call' = [call EXCEPT ![c].todo = call[c].todo \ {s}]
    <2> DEFINE r == [call[c] EXCEPT !.todo = call[c].todo \ {s}]
    <2>1. call' = [call EXCEPT ![c] = r]
      BY Zenon, <1>6
    <2>2. IsBase(r) /\ r.pc = call[c].pc /\ r.token = call[c].token /\ r.id = call[c].id
      BY Zenon, <1>1 DEF IsBase, BaseFields
    <2> HIDE DEF r
    <2> QED
      BY Zenon, <1>1, <1>2, <1>4, <2>1, <2>2, Bases
  <1> QED
    BY Zenon, <1>3, <1>5, <1>6

LEMMA TokenResolve ==
  ASSUME TokenInv, NEW c \in Calls, Resolve(c)
  PROVE  TokenInv'
  <1>1. IsBase(call[c]) /\ DOMAIN db = Tables /\ last \in Nat /\ call[c].pc = "resolve"
    BY Zenon, Shapes, InBase DEF Resolve, At
  <1>2. db' = db /\ last' = last /\ granted' = granted
    BY Zenon DEF Resolve, Rest
  <1> DEFINE r == [call[c] EXCEPT !.pc = "matching", !.combinations = Combinations(Resolved[call[c].id])]
  <1>3. call' = [call EXCEPT ![c] = r]
    BY Zenon DEF Resolve
  <1>4. IsBase(r) /\ r.pc = "matching" /\ r.token = call[c].token /\ r.id = call[c].id
    BY Zenon, <1>1 DEF IsBase, BaseFields
  <1> HIDE DEF r
  <1> QED
    BY Zenon, <1>1, <1>2, <1>3, <1>4, Bases

LEMMA TokenFetchMatching ==
  ASSUME TokenInv, NEW c \in Calls, FetchMatching(c)
  PROVE  TokenInv'
  <1>1. (IsBase(call[c]) \/ IsStreamed(call[c])) /\ DOMAIN db = Tables /\ last \in Nat
    BY Shapes DEF FetchMatching, At, Idle
  <1>2. db' = db /\ last' = last /\ granted' = granted /\ call[c].pc = "matching"
    BY Zenon DEF FetchMatching, Rest, At
  <1>3. PICK S \in call[c].combinations :
          \/ End(c)
          \/ call' = [call EXCEPT ![c].combinations = call[c].combinations \ {S},
                ![c].entries = call[c].entries \cup ListMatchingEntries(db, AsList(S)).res]
    BY Zenon DEF FetchMatching
  <1>4. CASE End(c)
    BY Zenon, <1>1, <1>2, <1>4, Ends
  <1>5. CASE ~End(c)
    <2> DEFINE E == call[c].entries \cup ListMatchingEntries(db, AsList(S)).res
               r == [call[c] EXCEPT !.combinations = call[c].combinations \ {S}, !.entries = E]
    <2>1. call' = [call EXCEPT ![c] = r]
      BY Zenon, <1>3, <1>5
    <2> HIDE DEF E
    <2>2. IsBase(call[c]) => IsBase(r) /\ r.pc = "matching" /\ r.token = call[c].token /\ r.id = call[c].id
      BY Zenon, <1>2 DEF IsBase, BaseFields
    <2>3. IsStreamed(call[c]) => IsStreamed(r)
      BY Zenon DEF IsStreamed, StreamFields
    <2> HIDE DEF r
    <2> QED
      BY Zenon, <1>1, <1>2, <2>1, <2>2, <2>3, Bases, Streams
  <1> QED
    BY <1>4, <1>5

LEMMA TokenFetchChildren ==
  ASSUME TokenInv, NEW c \in Calls, FetchChildren(c)
  PROVE  TokenInv'
  <1>1. /\ IsBase(call[c]) \/ IsStreamed(call[c])
        /\ IsStreamed(call[c]) <=> IsStream(c)
        /\ ~(IsBase(call[c]) /\ IsStreamed(call[c]))
        /\ DOMAIN db = Tables /\ last \in Nat
    BY Shapes DEF FetchChildren, At, Idle
  <1>2. db' = db /\ last' = last /\ granted' = granted /\ call[c].pc = "matching"
    BY Zenon DEF FetchChildren, Rest, At
  <1> DEFINE E == call[c].entries \cup ListParentIDEntries(db, call[c].id)
             q == IF IsStream(c) THEN "csrs" ELSE "bundle"
             r == [call[c] EXCEPT !.pc = q, !.entries = E]
  <1>3. call' = [call EXCEPT ![c] = r]
    BY Zenon DEF FetchChildren
  <1> HIDE DEF E
  <1>4. q = IF IsStreamed(call[c]) THEN "csrs" ELSE "bundle"
    BY Zenon, <1>1
  <1> HIDE DEF q
  <1>5. IsBase(call[c]) => IsBase(r) /\ r.pc = "bundle" /\ r.token = call[c].token /\ r.id = call[c].id
    BY Zenon, <1>1, <1>4 DEF IsBase, BaseFields
  <1>6. IsStreamed(call[c]) => IsStreamed(r)
    BY Zenon, <1>4 DEF IsStreamed, StreamFields
  <1> HIDE DEF r
  <1> QED
    BY Zenon, <1>1, <1>2, <1>3, <1>5, <1>6, Bases, Streams

LEMMA TokenGetBundle ==
  ASSUME TokenInv, NEW c \in Calls, GetBundle(c)
  PROVE  TokenInv'
  <1>1. (IsBase(call[c]) \/ IsStreamed(call[c])) /\ DOMAIN db = Tables /\ last \in Nat
    BY Shapes DEF GetBundle, At, Idle
  <1>2. db' = db /\ last' = last /\ granted' = granted /\ call[c].pc = "bundle"
    BY Zenon DEF GetBundle, Rest, At
  <1>3. End(c) \/ Goto(c, "respond")
    BY Zenon DEF GetBundle
  <1>4. CASE Goto(c, "respond") /\ IsStreamed(call[c])
    <2> DEFINE r == [call[c] EXCEPT !.pc = "respond"]
    <2>1. call' = [call EXCEPT ![c] = r]
      BY Zenon, <1>4 DEF Goto
    <2>2. IsStreamed(r)
      BY Zenon, <1>4 DEF IsStreamed, StreamFields
    <2> HIDE DEF r
    <2> QED
      BY Zenon, <1>1, <1>2, <2>1, <2>2, Streams
  <1> QED
    BY Zenon, <1>1, <1>2, <1>3, <1>4, Ends, Gotos

\* The answer: the call ends, and its token has been answered once.
LEMMA TokenRespond ==
  ASSUME TokenInv, NEW c \in Calls, Respond(c)
  PROVE  TokenInv'
  <1> USE NodeAssumption
  <1> DEFINE t == call[c].token
  <1>1. IsBase(call[c]) /\ call[c].pc = "respond"
    BY SMTT(30), Shapes DEF Respond, At, Idle
  <1>2. db' = db /\ last' = last /\ call' = [call EXCEPT ![c] = Idle]
    BY Zenon DEF Respond, End
  <1>3. granted' = IF t = "plugin" THEN granted ELSE [granted EXCEPT ![t] = granted[t] + 1]
    BY Zenon DEF Respond
  <1>4. t # "plugin" => /\ Answering(call[c]) /\ t \in Tokens /\ granted[t] = 0
                        /\ HasRow(AgentOf[t])
    BY Zenon, <1>1 DEF Answering, IsBase, TokenInv
  <1> HIDE DEF t
  <1>5. granted' \in [Tokens -> Nat] /\ \A u \in Tokens :
          granted'[u] = IF u = t /\ t # "plugin" THEN 1 ELSE granted[u]
    BY <1>3, <1>4 DEF TokenInv, ShapeInv
  <1>6. ~IsBase(Idle) /\ ~Answering(Idle) /\ IsCall(Idle)
    BY Zenon DEF IsBase, Answering, IsCall, Idle
  <1>7. \A d \in Calls : call'[d] = IF d = c THEN Idle ELSE call[d]
    BY <1>2 DEF TokenInv, ShapeInv
  <1>8. ShapeInv'
    <2>1. \A d \in Calls : IsCall(call'[d])
      BY Zenon, <1>6, <1>7 DEF TokenInv, ShapeInv
    <2>2. DOMAIN call' = Calls /\ call' = [d \in Calls |-> call'[d]]
      BY <1>2 DEF TokenInv, ShapeInv
    <2> QED
      BY Zenon, <1>2, <1>5, <2>1, <2>2 DEF TokenInv, ShapeInv, IsCall, IsBase, IsStreamed, Idle
  <1>9. \A d \in Calls : Answering(call'[d]) =>
          /\ d # c /\ Answering(call[d]) /\ call'[d] = call[d]
          /\ call[d].token \in Tokens /\ (call[d].token = t => t = "plugin")
    <2>1. \A d \in Calls : Answering(call'[d]) => d # c /\ call'[d] = call[d]
      BY Zenon, <1>6, <1>7
    <2>2. \A d \in Calls : Answering(call[d]) /\ Answering(call[c]) /\ call[d].token = t => d = c
      BY Zenon DEF TokenInv, t
    <2> QED
      BY Zenon, <1>4, <2>1, <2>2, AnsweredToken
  <1>10. \A d \in Calls : Answering(call'[d]) =>
           /\ call'[d].id = AgentOf[call'[d].token] /\ HasRow(call'[d].id)
           /\ granted'[call'[d].token] = 0
    <2>1. \A d \in Calls : Answering(call[d]) =>
            /\ call[d].id = AgentOf[call[d].token] /\ HasRow(call[d].id)
            /\ granted[call[d].token] = 0
      BY Zenon DEF TokenInv
    <2> QED
      BY <1>5, <1>9, <2>1
  <1>11. \A d, e \in Calls :
           Answering(call'[d]) /\ Answering(call'[e]) /\ call'[d].token = call'[e].token => d = e
    BY Zenon, <1>9 DEF TokenInv
  <1>12. \A u \in Tokens : granted'[u] = 0 \/ (granted'[u] = 1 /\ HasRow(AgentOf[u]))
    BY Zenon, <1>4, <1>5 DEF TokenInv
  <1>13. \A d \in Calls :
           (IsBase(call'[d]) /\ call'[d].token # "plugin" /\ call'[d].pc = "store")
             => call'[d].id = AgentOf[call'[d].token]
    BY <1>6, <1>7 DEF TokenInv
  <1> QED
    BY ZenonT(60), <1>2, <1>8, <1>10, <1>11, <1>12, <1>13 DEF TokenInv, HasRow, Answering, IsBase

\* updateAttestationEntry neither makes nor removes a row; the serial number is a number.
LEMMA UpdateKeepsRows ==
  ASSUME TokenInv, NEW i \in Ids, NEW n \in Nat, db' = UpdateAttestedNodeEntry(db, i, n).db
  PROVE  SameRows
  <1>1. DOMAIN db = Tables /\ db.node \in [Ids -> [row: Row, serial: Nat]]
    BY Zenon DEF TokenInv, ShapeInv
  <1>2. CASE db' = db
    BY Zenon, <1>1, <1>2 DEF SameRows
  <1>3. CASE db' = [db EXCEPT !.node[i].serial = n]
    <2>1. DOMAIN db' = Tables /\ db'.node = [db.node EXCEPT ![i].serial = n]
      BY Zenon, <1>1, <1>3 DEF Tables
    <2>2. db'.node \in [Ids -> [row: Row, serial: Nat]]
      BY <1>1, <2>1
    <2>3. \A j \in Ids : db'.node[j].row = db.node[j].row
      BY <1>1, <2>1
    <2> QED
      BY Zenon, <2>1, <2>2, <2>3 DEF SameRows
  <1> QED
    BY Zenon, <1>2, <1>3 DEF UpdateAttestedNodeEntry, Return, Fail

\* FetchSVID: what its steps make of a call is again a stream.
LEMMA StreamSteps ==
  ASSUME TokenInv, NEW c \in Calls,
         \/ OpenStream(c) \/ CloseStream(c) \/ Recv(c) \/ GetStoredSelectors(c)
         \/ BuildSVID(c) \/ BuildBaseSVID(c) \/ UpdateAttestation(c) \/ SignCSRsDone(c) \/ Send(c)
  PROVE  /\ granted' = granted /\ last' \in Nat
         /\ SameRows
         /\ \/ End(c)
            \/ \E r : IsStreamed(r) /\ call' = [call EXCEPT ![c] = r]
  <1> USE Shapes, NodeAssumption
  <1>0. DOMAIN db = Tables /\ last \in Nat /\ db.node \in [Ids -> [row: Row, serial: Nat]]
    BY Zenon DEF TokenInv, ShapeInv
  <1>s. db' = db => SameRows
    BY Zenon, <1>0 DEF SameRows
  <1>1. CASE OpenStream(c)
    <2>1. PICK i \in Ids : call' = [call EXCEPT ![c] =
            [pc |-> "recv", id |-> i, peer |-> IF i \in Agents THEN held[i] ELSE 0,
             csrs |-> {}, serial |-> 0, combinations |-> {}, entries |-> {},
             svids |-> {}, awaited |-> FALSE, possible |-> {}]]
      BY Zenon, <1>1 DEF OpenStream
    <2>2. IsStreamed([pc |-> "recv", id |-> i, peer |-> IF i \in Agents THEN held[i] ELSE 0,
             csrs |-> {}, serial |-> 0, combinations |-> {}, entries |-> {},
             svids |-> {}, awaited |-> FALSE, possible |-> {}])
      BY Zenon DEF IsStreamed, StreamFields
    <2> QED
      BY Zenon, <1>0, <1>s, <1>1, <2>1, <2>2 DEF OpenStream, Rest
  <1>2. CASE CloseStream(c)
    BY Zenon, <1>0, <1>s, <1>2 DEF CloseStream, Rest
  <1>3. ASSUME call[c].pc \in {"recv", "stored", "csrs", "update"} \/ IsStream(c)
        PROVE  IsStreamed(call[c])
    BY Zenon, <1>3, InStream
  <1>4. CASE Recv(c)
    <2>1. PICK S : call' = [call EXCEPT ![c].pc = "stored", ![c].csrs = S, ![c].entries = {},
                               ![c].svids = {}, ![c].serial = 0,
                               ![c].awaited = ~(S \subseteq Workloads),
                               ![c].possible = SpiffeIdsOf(LiveEntries(db))]
      BY ZenonT(60), <1>4 DEF Recv
    <2> DEFINE a == ~(S \subseteq Workloads)
               P == SpiffeIdsOf(LiveEntries(db))
               r == [call[c] EXCEPT !.pc = "stored", !.csrs = S, !.entries = {}, !.svids = {},
                                    !.serial = 0, !.awaited = a, !.possible = P]
    <2>2. call' = [call EXCEPT ![c] = r]
      BY ZenonT(60), <2>1
    <2> HIDE DEF a, P
    <2>3. IsStreamed(call[c])
      BY Zenon, <1>3, <1>4 DEF Recv, At
    <2>4. IsStreamed(r)
      BY Zenon, <2>3 DEF IsStreamed, StreamFields
    <2> QED
      BY Zenon, <1>0, <1>s, <1>4, <2>2, <2>4 DEF Recv, Rest
  <1>5. CASE GetStoredSelectors(c)
    <2> DEFINE C == Combinations(FetchNodeResolverMapEntry(db, call[c].id))
               r == [call[c] EXCEPT !.pc = "matching", !.combinations = C]
    <2>2. call' = [call EXCEPT ![c] = r]
      BY Zenon, <1>5 DEF GetStoredSelectors
    <2> HIDE DEF C
    <2>3. IsStreamed(call[c])
      BY Zenon, <1>3, <1>5 DEF GetStoredSelectors, At
    <2>4. IsStreamed(r)
      BY Zenon, <2>3 DEF IsStreamed, StreamFields
    <2> QED
      BY Zenon, <1>0, <1>s, <1>5, <2>2, <2>4 DEF GetStoredSelectors, Rest
  <1>6. CASE BuildSVID(c) /\ ~End(c)
    <2>1. PICK i : call' = [call EXCEPT ![c].csrs = call[c].csrs \ {i}, ![c].svids = call[c].svids \cup {i}]
      BY Zenon, <1>6 DEF BuildSVID
    <2> DEFINE r == [call[c] EXCEPT !.csrs = call[c].csrs \ {i}, !.svids = call[c].svids \cup {i}]
    <2>2. call' = [call EXCEPT ![c] = r]
      BY Zenon, <2>1
    <2>3. IsStreamed(call[c])
      BY Zenon, <1>3, <1>6 DEF BuildSVID, At
    <2>4. IsStreamed(r)
      BY Zenon, <2>3 DEF IsStreamed, StreamFields
    <2> QED
      BY Zenon, <1>0, <1>s, <1>6, <2>2, <2>4 DEF BuildSVID, Rest
  <1>7. CASE BuildSVID(c) /\ End(c)
    BY Zenon, <1>0, <1>s, <1>7 DEF BuildSVID, Rest
  <1>8. CASE BuildBaseSVID(c) /\ ~End(c)
    <2> DEFINE r == [call[c] EXCEPT !.pc = "update", !.serial = last + 1]
    <2>2. call' = [call EXCEPT ![c] = r] /\ last' = last + 1
      BY ZenonT(60), <1>8 DEF BuildBaseSVID
    <2>3. IsStreamed(call[c])
      BY Zenon, <1>3, <1>8 DEF BuildBaseSVID, At
    <2>4. IsStreamed(r)
      BY <1>0, <2>2, <2>3 DEF IsStreamed, StreamFields
    <2>5. db' = db /\ granted' = granted
      BY Zenon, <1>8 DEF BuildBaseSVID
    <2>6. \E x : IsStreamed(x) /\ call' = [call EXCEPT ![c] = x]
      BY <2>2, <2>4, Zenon
    <2>7. last' \in Nat
      BY <1>0, <2>2
    <2> QED
      BY Zenon, <1>s, <2>5, <2>6, <2>7
  <1>9. CASE BuildBaseSVID(c) /\ End(c)
    BY <1>0, <1>s, <1>9 DEF BuildBaseSVID
  <1>10. CASE UpdateAttestation(c)
    <2> DEFINE r == [call[c] EXCEPT !.pc = "csrs", !.csrs = call[c].csrs \ {call[c].id},
                                    !.svids = call[c].svids \cup {call[c].id}]
    <2>2. call' = [call EXCEPT ![c] = r]
      BY Zenon, <1>10 DEF UpdateAttestation
    <2>3. IsStreamed(call[c])
      BY Zenon, <1>3, <1>10 DEF UpdateAttestation, At
    <2>4. IsStreamed(r)
      BY Zenon, <2>3 DEF IsStreamed, StreamFields
    <2>5. SameRows
      <3>1. call[c].id \in Ids /\ call[c].serial \in Nat
        BY Zenon, <2>3 DEF IsStreamed
      <3> QED
        BY Zenon, <1>s, <1>10, <3>1, UpdateKeepsRows DEF UpdateAttestation
    <2> QED
      BY Zenon, <1>0, <1>10, <2>2, <2>4, <2>5 DEF UpdateAttestation
  <1>11. CASE SignCSRsDone(c)
    <2> DEFINE r == [call[c] EXCEPT !.pc = "bundle"]
    <2>2. call' = [call EXCEPT ![c] = r]
      BY Zenon, <1>11 DEF SignCSRsDone, Goto
    <2>3. IsStreamed(call[c])
      BY Zenon, <1>3, <1>11 DEF SignCSRsDone, At
    <2>4. IsStreamed(r)
      BY Zenon, <2>3 DEF IsStreamed, StreamFields
    <2> QED
      BY Zenon, <1>0, <1>s, <1>11, <2>2, <2>4 DEF SignCSRsDone, Rest
  <1>12. CASE Send(c)
    <2> DEFINE r == [call[c] EXCEPT !.pc = "recv", !.awaited = FALSE]
    <2>2. call' = [call EXCEPT ![c] = r]
      BY Zenon, <1>12 DEF Send
    <2>3. IsStreamed(call[c])
      BY Zenon, <1>3, <1>12 DEF Send, At
    <2>4. IsStreamed(r)
      BY Zenon, <2>3 DEF IsStreamed, StreamFields
    <2> QED
      BY Zenon, <1>0, <1>s, <1>12, <2>2, <2>4 DEF Send
  <1> QED
    BY ZenonT(60), <1>1, <1>2, <1>4, <1>5, <1>6, <1>7, <1>8, <1>9, <1>10, <1>11, <1>12

LEMMA TokenStreams ==
  ASSUME TokenInv, NEW c \in Calls, StreamStep(c)
  PROVE  TokenInv'
  <1>1. /\ granted' = granted /\ last' \in Nat /\ SameRows
        /\ \/ End(c)
           \/ \E r : IsStreamed(r) /\ call' = [call EXCEPT ![c] = r]
    BY Zenon, StreamSteps DEF StreamStep
  <1>2. \A r : IsStreamed(r) => IsCall(r) /\ ~IsBase(r) /\ ~Answering(r)
    <2>1. "peer" \in StreamFields /\ "peer" \notin BaseFields
      BY Zenon DEF StreamFields, BaseFields
    <2> QED
      BY Zenon, <2>1 DEF IsCall, IsBase, IsStreamed, Answering
  <1>3. IsCall(Idle) /\ ~IsBase(Idle) /\ ~Answering(Idle)
    BY Zenon DEF IsCall, IsBase, Answering, Idle
  <1>4. PICK r : IsCall(r) /\ ~IsBase(r) /\ ~Answering(r) /\ call' = [call EXCEPT ![c] = r]
    BY Zenon, <1>1, <1>2, <1>3 DEF End
  <1> QED
    BY Zenon, <1>1, <1>4, OneCallRows

LEMMA TokenFailures ==
  ASSUME TokenInv, NEW c \in Calls, Abort(c) \/ CARefuses(c)
  PROVE  TokenInv'
  BY Zenon, Shapes, Ends DEF Abort, CARefuses, Rest

\* The steps of nobody's call: they change fields of streams, and what is awaited, only.
Alike(q, r) == IsBase(q) /\ IsBase(r) /\ r.pc = q.pc /\ r.token = q.token /\ r.id = q.id

LEMMA TokenOthers ==
  ASSUME TokenInv,
         \/ Tick
         \/ \E i \in Agents : AgentRestart(i)
         \/ \E t \in Tokens : CreateJoinToken(t)
         \/ \E e \in EntryIds : CreateEntry(e) \/ DeleteEntry(e)
         \/ UNCHANGED vars
  PROVE  TokenInv'
  <1> DEFINE Same == DOMAIN db' = Tables /\ db'.node = db.node /\ last' = last /\ granted' = granted
             Kept == /\ DOMAIN call' = Calls /\ call' = [d \in Calls |-> call'[d]]
                     /\ \A d \in Calls : \/ call'[d] = call[d]
                                         \/ IsStreamed(call[d]) /\ IsStreamed(call'[d])
                                         \/ Alike(call[d], call'[d])
  <1>0. DOMAIN db = Tables /\ DOMAIN call = Calls /\ call = [d \in Calls |-> call[d]]
    BY Zenon DEF TokenInv, ShapeInv
  <1>1. ASSUME Tick \/ UNCHANGED vars
        PROVE  Same /\ Kept
    BY Zenon, <1>0, <1>1 DEF Tick, vars
  <1>2. ASSUME NEW i \in Agents, AgentRestart(i)
        PROVE  Same /\ Kept
    <2>1. \A d \in Calls : IsStreamed(call[d]) => IsStreamed([call[d] EXCEPT !.awaited = FALSE])
      BY Zenon DEF IsStreamed, StreamFields
    <2>2. \A d \in Calls : IsBase(call[d]) => Alike(call[d], [call[d] EXCEPT !.awaited = FALSE])
      BY Zenon DEF IsBase, BaseFields, Alike
    <2>3. \A d \in Calls : ~At(d, "idle") => IsBase(call[d]) \/ IsStreamed(call[d])
      BY Shapes DEF At, Idle
    <2> QED
      BY Zenon, <1>0, <1>2, <2>1, <2>2, <2>3 DEF AgentRestart
  <1>3. ASSUME NEW t \in Tokens, CreateJoinToken(t)
        PROVE  Same /\ Kept
    <2>1. PICK ttl : db' = RegisterToken(db, t, now + ttl).db
      BY Zenon, <1>3 DEF CreateJoinToken
    <2>2. DOMAIN db' = Tables /\ db'.node = db.node
      BY Zenon, <1>0, <2>1 DEF RegisterToken, Return, Fail, Tables
    <2> QED
      BY Zenon, <1>0, <1>3, <2>2 DEF CreateJoinToken
  <1>4. ASSUME NEW e \in EntryIds, CreateEntry(e)
        PROVE  Same /\ Kept
    <2>1. PICK i, q : /\ db' = CreateRegistrationEntry(db, e, q).db
                      /\ call' = [c \in Calls |-> IF IsStream(c) /\ ~At(c, "recv")
                           THEN [call[c] EXCEPT !.possible = call[c].possible \cup {i}] ELSE call[c]]
      BY <1>4, Zenon DEF CreateEntry
    <2>2. \A d \in Calls : IsStreamed(call[d]) =>
            IsStreamed([call[d] EXCEPT !.possible = call[d].possible \cup {i}])
      BY Zenon DEF IsStreamed, StreamFields
    <2>3. Same
      BY Zenon, <1>0, <1>4, <2>1, OtherTables DEF CreateEntry
    <2> QED
      BY Zenon, <2>1, <2>2, <2>3, Shapes
  <1>5. ASSUME NEW e \in EntryIds, DeleteEntry(e)
        PROVE  Same /\ Kept
    BY Zenon, <1>0, <1>5, OtherTables DEF DeleteEntry
  <1>6. Same /\ Kept
    BY Zenon, <1>1, <1>2, <1>3, <1>4, <1>5
  <1> HIDE DEF Same, Kept
  <1>7. \A r : IsStreamed(r) => IsCall(r) /\ ~IsBase(r) /\ ~Answering(r)
    <2>1. "peer" \in StreamFields /\ "peer" \notin BaseFields
      BY Zenon DEF StreamFields, BaseFields
    <2> QED
      BY Zenon, <2>1 DEF IsCall, IsBase, IsStreamed, Answering
  <1>8. \A d \in Calls : /\ IsCall(call'[d])
                         /\ IsBase(call'[d]) => Alike(call[d], call'[d])
                         /\ Answering(call'[d]) => Answering(call[d]) /\ Alike(call[d], call'[d])
    <2>1. \A d \in Calls : IsCall(call'[d]) /\ (IsBase(call'[d]) => Alike(call[d], call'[d]))
      BY Zenon, <1>6, <1>7 DEF Kept, TokenInv, ShapeInv, IsCall, Alike
    <2> QED
      BY Zenon, <2>1 DEF Answering, Alike
  <1>9. ShapeInv'
    BY Zenon, <1>6, <1>8 DEF Same, Kept, TokenInv, ShapeInv, IsCall, IsBase, IsStreamed
  <1>10. \A d \in Calls : Answering(call'[d]) =>
           /\ Answering(call[d]) /\ call'[d].id = AgentOf[call'[d].token]
           /\ HasRow(call'[d].id) /\ granted'[call'[d].token] = 0
    BY <1>6, <1>8 DEF Same, TokenInv, Alike
  <1>11. \A d, e \in Calls :
           Answering(call'[d]) /\ Answering(call'[e]) /\ call'[d].token = call'[e].token => d = e
    BY Zenon, <1>8 DEF TokenInv, Alike
  <1>12. \A t \in Tokens : granted'[t] = 0 \/ (granted'[t] = 1 /\ HasRow(AgentOf[t]))
    BY Zenon, <1>6 DEF Same, TokenInv
  <1>13. \A d \in Calls :
           (IsBase(call'[d]) /\ call'[d].token # "plugin" /\ call'[d].pc = "store")
             => call'[d].id = AgentOf[call'[d].token]
    BY Zenon, <1>8 DEF TokenInv, Alike
  <1> QED
    BY ZenonT(60), <1>6, <1>9, <1>10, <1>11, <1>12, <1>13 DEF Same, TokenInv, HasRow, Answering, IsBase

LEMMA TokenInvariant == Spec => []TokenInv
  <1>1. TokenInv /\ [Next]_vars => TokenInv'
    <2> SUFFICES ASSUME TokenInv, [Next]_vars PROVE TokenInv'
      BY Zenon
    <2>1. ASSUME NEW c \in Calls, BaseStep(c)
          PROVE  TokenInv'
      BY Zenon, <2>1, TokenFetchBaseSVID, TokenIsAttested, TokenAttest, TokenFetchJoinToken,
         TokenDeleteJoinToken, TokenStoreAttestation, TokenResolveSelector, TokenResolve, TokenRespond
         DEF BaseStep
    <2>2. ASSUME NEW c \in Calls, SharedStep(c)
          PROVE  TokenInv'
      BY Zenon, <2>2, TokenFetchMatching, TokenFetchChildren, TokenGetBundle, TokenFailures DEF SharedStep
    <2> QED
      BY Zenon, <2>1, <2>2, TokenStreams, TokenOthers DEF Next
  <1> QED
    BY <1>1, TokenInit, PTL DEF Spec

\* However many nodes send one join token, in whatever order their calls fetch and delete it, and
\* although a failed delete is ignored, one SVID is returned for it: createAttestationEntry makes
\* one row for the id that attestToken derives from the token.
THEOREM TokensAreSingleUse == Spec => []TokenIsSingleUse
  <1>1. TokenInv => TokenIsSingleUse
    BY DEF TokenInv, TokenIsSingleUse
  <1> QED
    BY <1>1, TokenInvariant, PTL

EntryInv ==
  /\ DOMAIN db.entry = EntryIds
  /\ \A e \in EntryIds : DOMAIN db.entry[e] = {"row", "spiffe", "parent"}

Grounded(r) ==
  /\ r.svids \cap Workloads \subseteq r.possible
  /\ r.pc = "update" => r.id \notin Workloads
  /\ r.pc # "recv" =>
       /\ r.csrs \subseteq Workloads \cup {r.id}
       /\ r.entries \subseteq EntryIds
       /\ \A e \in r.entries : db.entry[e].row # "none" /\ db.entry[e].spiffe \in r.possible
       /\ \A e \in LiveEntries(db) : db.entry[e].spiffe \in r.possible

SignInv ==
  /\ TokenInv
  /\ EntryInv
  /\ \A c \in Calls : IsStreamed(call[c]) => Grounded(call[c])

LEMMA SignInit == Init => SignInv
  <1> SUFFICES ASSUME Init PROVE SignInv
    BY Zenon
  <1>1. EntryInv
    BY Zenon DEF Init, AppendBundle, CreateBundle, EmptyDB, Return, Fail, EntryInv
  <1>2. \A c \in Calls : call[c] = Idle /\ ~IsStreamed(call[c])
    BY Zenon DEF Init, Idle, IsStreamed, StreamFields
  <1> QED
    BY Zenon, <1>1, <1>2, TokenInit DEF SignInv

\* A step that leaves the table of entries alone.
LEMMA SameEntries ==
  ASSUME SignInv, TokenInv', db'.entry = db.entry,
         \A d \in Calls : IsStreamed(call'[d]) => Grounded(call'[d])
  PROVE  SignInv'
  <1>1. EntryInv' /\ LiveEntries(db)' = LiveEntries(db)
    BY Zenon DEF SignInv, EntryInv, LiveEntries
  <1>2. \A d \in Calls : IsStreamed(call'[d]) => Grounded(call[d])'
    BY Zenon, <1>1 DEF Grounded
  <1> QED
    BY Zenon, <1>1, <1>2 DEF SignInv, IsStreamed

\* A step of one call.
LEMMA SignOne ==
  ASSUME SignInv, TokenInv', NEW c \in Calls, db'.entry = db.entry,
         \A d \in Calls \ {c} : call'[d] = call[d],
         IsStreamed(call'[c]) => Grounded(call'[c])
  PROVE  SignInv'
  BY Zenon, SameEntries DEF SignInv

LEMMA SignEnd ==
  ASSUME SignInv, TokenInv', NEW c \in Calls, End(c), db'.entry = db.entry
  PROVE  SignInv'
  <1>1. \A d \in Calls : call'[d] = IF d = c THEN Idle ELSE call[d]
    BY Zenon DEF End, SignInv, TokenInv, ShapeInv
  <1>2. ~IsStreamed(Idle)
    BY Zenon DEF Idle, IsStreamed, StreamFields
  <1> QED
    BY Zenon, <1>1, <1>2, SignOne

\* FetchBaseSVID leaves the entries alone, and is no stream.
LEMMA BaseSteps ==
  ASSUME SignInv, NEW c \in Calls, BaseStep(c)
  PROVE  /\ db'.entry = db.entry
         /\ \A d \in Calls \ {c} : call'[d] = call[d]
         /\ ~IsStreamed(call'[c])
  <1>0. DOMAIN db = Tables /\ DOMAIN call = Calls
    BY Zenon DEF SignInv, TokenInv, ShapeInv
  <1>i. ~IsStreamed(Idle)
    BY Zenon DEF Idle, IsStreamed, StreamFields
  <1>b. \A r : DOMAIN r = BaseFields => ~IsStreamed(r)
    <2>1. "peer" \in StreamFields /\ "peer" \notin BaseFields
      BY Zenon DEF StreamFields, BaseFields
    <2> QED
      BY Zenon, <2>1 DEF IsStreamed
  <1>e. ASSUME End(c)
        PROVE  (\A d \in Calls \ {c} : call'[d] = call[d]) /\ ~IsStreamed(call'[c])
    BY Zenon, <1>0, <1>e, <1>i DEF End
  <1>g. ASSUME NEW pc, Goto(c, pc), IsBase(call[c])
        PROVE  (\A d \in Calls \ {c} : call'[d] = call[d]) /\ ~IsStreamed(call'[c])
    <2>1. DOMAIN call'[c] = BaseFields
      BY Zenon, <1>0, <1>g DEF Goto, IsBase
    <2> QED
      BY Zenon, <1>0, <1>g, <1>b, <2>1 DEF Goto
  <1>s. TokenInv
    BY Zenon DEF SignInv
  <1>1. CASE FetchBaseSVID(c)
    <2>1. PICK i \in Agents, t \in Tokens \cup {"plugin"} :
            call' = [call EXCEPT ![c] =
              [pc |-> "isAttested", token |-> t, id |-> i, awaited |-> TRUE, before |-> FALSE,
               serial |-> 0, todo |-> {}, combinations |-> {}, entries |-> {}]]
      BY Zenon, <1>1 DEF FetchBaseSVID
    <2>2. DOMAIN call'[c] = BaseFields
      BY Zenon, <1>0, <2>1 DEF BaseFields
    <2> QED
      BY <1>0, <1>b, <1>1, <2>1, <2>2 DEF FetchBaseSVID
  <1>2. CASE IsAttested(c)
    <2>1. IsBase(call[c])
      BY Zenon, <1>s, <1>2, InBase DEF IsAttested, At
    <2>2. ASSUME NEW before, call' = [call EXCEPT ![c].pc = "attest", ![c].before = before]
          PROVE  (\A d \in Calls \ {c} : call'[d] = call[d]) /\ ~IsStreamed(call'[c])
      <3>1. DOMAIN call'[c] = BaseFields
        BY Zenon, <1>0, <2>1, <2>2 DEF IsBase
      <3> QED
        BY Zenon, <1>0, <1>b, <2>2, <3>1
    <2> QED
      BY <1>2, <1>e, <1>g, <2>1, <2>2 DEF IsAttested
  <1>3. CASE Attest(c)
    <2>1. IsBase(call[c])
      BY <1>s, <1>3, InBase DEF Attest, At
    <2> QED
      BY Zenon, <1>3, <1>e, <1>g, <2>1 DEF Attest
  <1>4. CASE FetchJoinToken(c)
    <2>1. IsBase(call[c])
      BY Zenon, <1>s, <1>4, InBase DEF FetchJoinToken, At
    <2> QED
      BY <1>4, <1>e, <1>g, <2>1 DEF FetchJoinToken
  <1>5. CASE DeleteJoinToken(c)
    <2>1. IsBase(call[c])
      BY Zenon, <1>s, <1>5, InBase DEF DeleteJoinToken, At
    <2>2. db'.entry = db.entry
      BY Zenon, <1>0, <1>5 DEF DeleteJoinToken, DeleteToken, Return, Tables
    <2>3. Goto(c, "store") \/ End(c)
      BY Zenon, <1>5 DEF DeleteJoinToken
    <2> QED
      BY Zenon, <1>e, <1>g, <2>1, <2>2, <2>3
  <1>6. CASE StoreAttestation(c)
    <2>1. IsBase(call[c])
      BY Zenon, <1>s, <1>6, InBase DEF StoreAttestation, At
    <2>2. db'.entry = db.entry
      BY Zenon, <1>0, <1>6 DEF StoreAttestation, UpdateAttestedNodeEntry, CreateAttestedNodeEntry, Return,
                               Fail, Tables
    <2>3. ASSUME NEW n, NEW S, call' = [call EXCEPT ![c].pc = "resolve", ![c].serial = n, ![c].todo = S]
          PROVE  (\A d \in Calls \ {c} : call'[d] = call[d]) /\ ~IsStreamed(call'[c])
      <3>1. DOMAIN call'[c] = BaseFields
        BY Zenon, <1>0, <2>1, <2>3 DEF IsBase
      <3> QED
        BY Zenon, <1>0, <1>b, <2>3, <3>1
    <2> QED
      BY Zenon, <1>6, <1>e, <2>2, <2>3 DEF StoreAttestation
  <1>7. CASE ResolveSelector(c)
    <2>1. IsBase(call[c])
      BY Zenon, <1>s, <1>7, InBase DEF ResolveSelector, At
    <2>2. db'.entry = db.entry
      BY Zenon, <1>0, <1>7 DEF ResolveSelector, CreateNodeResolverMapEntry, Return, Fail, Tables
    <2>3. ASSUME NEW s, call' = [call EXCEPT ![c].todo = @ \ {s}]
          PROVE  (\A d \in Calls \ {c} : call'[d] = call[d]) /\ ~IsStreamed(call'[c])
      <3>1. DOMAIN call'[c] = BaseFields
        BY Zenon, <1>0, <2>1, <2>3 DEF IsBase
      <3> QED
        BY Zenon, <1>0, <1>b, <2>3, <3>1
    <2>4. End(c) \/ \E s : call' = [call EXCEPT ![c].todo = @ \ {s}]
      BY Zenon, <1>7 DEF ResolveSelector
    <2> QED
      BY Zenon, <1>e, <2>2, <2>3, <2>4
  <1>8. CASE Resolve(c)
    <2>1. IsBase(call[c])
      BY Zenon, <1>s, <1>8, InBase DEF Resolve, At
    <2>2. PICK C : call' = [call EXCEPT ![c].pc = "matching", ![c].combinations = C]
      BY Zenon, <1>8 DEF Resolve
    <2>3. DOMAIN call'[c] = BaseFields
      BY Zenon, <1>0, <2>1, <2>2 DEF IsBase
    <2> QED
      BY Zenon, <1>0, <1>b, <1>8, <2>2, <2>3 DEF Resolve
  <1>9. CASE Respond(c)
    BY Zenon, <1>9, <1>e DEF Respond
  <1> QED
    BY Zenon, <1>1, <1>2, <1>3, <1>4, <1>5, <1>6, <1>7, <1>8, <1>9 DEF BaseStep

\* listMatchingEntries and ListParentIDEntries answer with entries that are not deleted.
LEMMA ListsLive ==
  /\ \A q : ~ListMatchingEntries(db, q).err => ListMatchingEntries(db, q).res \subseteq LiveEntries(db)
  /\ \A i : ListParentIDEntries(db, i) \subseteq LiveEntries(db)
  <1>1. \A q : ~ListMatchingEntries(db, q).err => ListMatchingEntries(db, q).res \subseteq LiveEntries(db)
    BY Zenon DEF ListMatchingEntries, Matching, Return, Fail
  <1> QED
    BY Zenon, <1>1 DEF ListParentIDEntries

\* What a stream that collects entries and changes its position makes of itself.
LEMMA SignStream ==
  ASSUME SignInv, TokenInv', NEW c \in Calls, NEW r, IsStreamed(call[c]), call[c].pc # "recv",
         call' = [call EXCEPT ![c] = r], db'.entry = db.entry,
         r.possible = call[c].possible, r.id = call[c].id, r.csrs \subseteq call[c].csrs,
         r.pc = "update" => r.id \notin Workloads,
         r.entries \subseteq call[c].entries \cup LiveEntries(db),
         \A i \in r.svids : i \in call[c].svids \/ i \in SpiffeIdsOf(call[c].entries) \/ i \notin Workloads
  PROVE  SignInv'
  <1>1. \A d \in Calls : call'[d] = IF d = c THEN r ELSE call[d]
    BY Zenon DEF SignInv, TokenInv, ShapeInv
  <1>2. Grounded(call[c])
    BY Zenon DEF SignInv
  <1>3. LiveEntries(db) \subseteq EntryIds /\ \A e \in LiveEntries(db) : db.entry[e].row # "none"
    BY Zenon DEF LiveEntries
  <1>4. \A i \in SpiffeIdsOf(call[c].entries) : i \in call[c].possible
    BY Zenon, <1>2 DEF Grounded, SpiffeIdsOf
  <1>5. r.svids \cap Workloads \subseteq r.possible
    BY Zenon, <1>2, <1>4 DEF Grounded
  <1>6. /\ r.csrs \subseteq Workloads \cup {r.id}
        /\ r.entries \subseteq EntryIds
        /\ \A e \in r.entries : db.entry[e].row # "none" /\ db.entry[e].spiffe \in r.possible
        /\ \A e \in LiveEntries(db) : db.entry[e].spiffe \in r.possible
    BY Zenon, <1>2, <1>3 DEF Grounded
  <1>7. Grounded(r)
    BY Zenon, <1>5, <1>6 DEF Grounded
  <1> QED
    BY <1>1, <1>7, SignOne

\* fetchRegistrationEntries and what ends a call.
LEMMA SignShared ==
  ASSUME SignInv, TokenInv', NEW c \in Calls, SharedStep(c)
  PROVE  SignInv'
  <1>0. TokenInv /\ DOMAIN db = Tables /\ DOMAIN call = Calls
    BY Zenon DEF SignInv, TokenInv, ShapeInv
  <1>d. db' = db
    BY Zenon DEF SharedStep, FetchMatching, FetchChildren, GetBundle, Abort, CARefuses
  <1>b. ASSUME NEW r, DOMAIN r = DOMAIN call[c], ~IsStreamed(call[c]), call[c] # Idle,
               call' = [call EXCEPT ![c] = r]
        PROVE  SignInv'
    <2>1. IsBase(call[c])
      BY Zenon, <1>0, <1>b, Shapes
    <2>2. "peer" \in StreamFields /\ "peer" \notin BaseFields
      BY Zenon DEF StreamFields, BaseFields
    <2>3. ~IsStreamed(r)
      BY Zenon, <1>b, <2>1, <2>2 DEF IsBase, IsStreamed
    <2> QED
      BY Zenon, <1>0, <1>b, <1>d, <2>3, SignOne
  <1>1. CASE End(c)
    BY Zenon, <1>1, <1>d, SignEnd
  <1>2. CASE FetchMatching(c) /\ ~End(c)
    <2>1. PICK S : /\ ~ListMatchingEntries(db, AsList(S)).err
                   /\ call' = [call EXCEPT ![c].combinations = @ \ {S},
                                 ![c].entries = @ \cup ListMatchingEntries(db, AsList(S)).res]
      BY Zenon, <1>2 DEF FetchMatching
    <2> DEFINE R == ListMatchingEntries(db, AsList(S)).res
               r == [call[c] EXCEPT !.combinations = @ \ {S}, !.entries = @ \cup R]
    <2>2. R \subseteq LiveEntries(db)
      BY Zenon, <2>1, ListsLive
    <2>3. call' = [call EXCEPT ![c] = r]
      BY Zenon, <2>1
    <2> HIDE DEF R
    <2>4. call[c].pc = "matching" /\ call[c] # Idle
      BY <1>2 DEF FetchMatching, At, Idle
    <2>5. CASE IsStreamed(call[c])
      <3>1. /\ r.possible = call[c].possible /\ r.svids = call[c].svids
            /\ r.entries = call[c].entries \cup R
            /\ r.id = call[c].id /\ r.csrs = call[c].csrs /\ r.pc # "update"
        BY Zenon, <2>4, <2>5 DEF IsStreamed, StreamFields
      <3> HIDE DEF r
      <3> QED
        BY Zenon, <1>d, <2>2, <2>3, <2>4, <2>5, <3>1, SignStream
    <2>6. CASE ~IsStreamed(call[c])
      <3>1. DOMAIN r = DOMAIN call[c]
        BY Zenon
      <3> HIDE DEF r
      <3> QED
        BY Zenon, <1>b, <2>3, <2>4, <2>6, <3>1
    <2> QED
      BY Zenon, <2>5, <2>6
  <1>3. CASE FetchChildren(c)
    <2>1. PICK pc \in {"csrs", "bundle"} :
            call' = [call EXCEPT ![c].pc = pc,
                                  ![c].entries = @ \cup ListParentIDEntries(db, call[c].id)]
      BY Zenon, <1>3 DEF FetchChildren
    <2> DEFINE R == ListParentIDEntries(db, call[c].id)
               r == [call[c] EXCEPT !.pc = pc, !.entries = @ \cup R]
    <2>2. R \subseteq LiveEntries(db)
      BY Zenon, ListsLive
    <2>3. call' = [call EXCEPT ![c] = r]
      BY Zenon, <2>1
    <2> HIDE DEF R
    <2>4. call[c].pc = "matching" /\ call[c] # Idle
      BY <1>3 DEF FetchChildren, At, Idle
    <2>5. CASE IsStreamed(call[c])
      <3>1. /\ r.possible = call[c].possible /\ r.svids = call[c].svids
            /\ r.entries = call[c].entries \cup R
            /\ r.id = call[c].id /\ r.csrs = call[c].csrs /\ r.pc # "update"
        BY Zenon, <2>4, <2>5 DEF IsStreamed, StreamFields
      <3> HIDE DEF r
      <3> QED
        BY Zenon, <1>d, <2>2, <2>3, <2>4, <2>5, <3>1, SignStream
    <2>6. CASE ~IsStreamed(call[c])
      <3>1. DOMAIN r = DOMAIN call[c]
        BY Zenon
      <3> HIDE DEF r
      <3> QED
        BY Zenon, <1>b, <2>3, <2>4, <2>6, <3>1
    <2> QED
      BY Zenon, <2>5, <2>6
  <1>4. CASE GetBundle(c) /\ Goto(c, "respond")
    <2> DEFINE r == [call[c] EXCEPT !.pc = "respond"]
    <2>3. call' = [call EXCEPT ![c] = r]
      BY Zenon, <1>4 DEF Goto
    <2>4. call[c].pc = "bundle" /\ call[c] # Idle
      BY <1>4 DEF GetBundle, At, Idle
    <2>5. CASE IsStreamed(call[c])
      <3>1. /\ r.possible = call[c].possible /\ r.svids = call[c].svids
            /\ r.entries = call[c].entries
            /\ r.id = call[c].id /\ r.csrs = call[c].csrs /\ r.pc # "update"
        BY Zenon, <2>4, <2>5 DEF IsStreamed, StreamFields
      <3> HIDE DEF r
      <3> QED
        BY Zenon, <1>d, <2>3, <2>4, <2>5, <3>1, SignStream
    <2>6. CASE ~IsStreamed(call[c])
      <3>1. DOMAIN r = DOMAIN call[c]
        BY Zenon
      <3> HIDE DEF r
      <3> QED
        BY Zenon, <1>b, <2>3, <2>4, <2>6, <3>1
    <2> QED
      BY Zenon, <2>5, <2>6
  <1> QED
    BY Zenon, <1>1, <1>2, <1>3, <1>4 DEF SharedStep, GetBundle, Abort, CARefuses

\* A stream begins, and receives a request: the live entries are all possible.
LEMMA SignReceives ==
  ASSUME SignInv, TokenInv', NEW c \in Calls, OpenStream(c) \/ Recv(c)
  PROVE  SignInv'
  <1>0. TokenInv /\ DOMAIN call = Calls
    BY Zenon DEF SignInv, TokenInv, ShapeInv
  <1>1. CASE OpenStream(c)
    <2>1. PICK i \in Ids : call' = [call EXCEPT ![c] =
            [pc |-> "recv", id |-> i, peer |-> IF i \in Agents THEN held[i] ELSE 0,
             csrs |-> {}, serial |-> 0, combinations |-> {}, entries |-> {},
             svids |-> {}, awaited |-> FALSE, possible |-> {}]]
      BY Zenon, <1>1 DEF OpenStream
    <2>2. call'[c].svids = {} /\ call'[c].pc = "recv" /\ db' = db
      BY Zenon, <1>0, <1>1, <2>1 DEF OpenStream
    <2>3. Grounded(call'[c])
      BY Zenon, <2>2 DEF Grounded
    <2> QED
      BY Zenon, <1>0, <2>1, <2>2, <2>3, SignOne
  <1>2. CASE Recv(c)
    <2> DEFINE P == SpiffeIdsOf(LiveEntries(db))
    <2>1. PICK S \in (SUBSET Workloads) \cup {{call[c].id}} :
            call' = [call EXCEPT ![c].pc = "stored", ![c].csrs = S, ![c].entries = {},
                                 ![c].svids = {}, ![c].serial = 0,
                                 ![c].awaited = ~(S \subseteq Workloads), ![c].possible = P]
      BY ZenonT(60), <1>2 DEF Recv
    <2>2. IsStreamed(call[c]) /\ db' = db
      BY ZenonT(60), <1>0, <1>2, InStream DEF Recv, At
    <2>3. \A e \in LiveEntries(db) : db.entry[e].spiffe \in P
      BY Zenon DEF SpiffeIdsOf
    <2> DEFINE a == ~(S \subseteq Workloads)
               r == [call[c] EXCEPT !.pc = "stored", !.csrs = S, !.entries = {}, !.svids = {},
                                    !.serial = 0, !.awaited = a, !.possible = P]
    <2>4. call' = [call EXCEPT ![c] = r]
      BY ZenonT(60), <2>1
    <2> HIDE DEF P, a
    <2>5. /\ r.pc = "stored" /\ r.csrs = S /\ r.entries = {} /\ r.svids = {} /\ r.possible = P
          /\ r.id = call[c].id
      BY Zenon, <2>2 DEF IsStreamed, StreamFields
    <2> HIDE DEF r
    <2>c. S \subseteq Workloads \cup {call[c].id}
      BY Zenon
    <2>6. Grounded(r)
      BY Zenon, <2>3, <2>5, <2>c DEF Grounded
    <2> QED
      BY Zenon, <1>0, <2>2, <2>4, <2>6, SignOne
  <1> QED
    BY Zenon, <1>1, <1>2

\* The steps between two requests.
LEMMA SignStreams ==
  ASSUME SignInv, TokenInv', NEW c \in Calls, StreamStep(c)
  PROVE  SignInv'
  <1>0. TokenInv /\ DOMAIN db = Tables /\ DOMAIN call = Calls
    BY Zenon DEF SignInv, TokenInv, ShapeInv
  <1>d. db'.entry = db.entry
    BY Zenon, <1>0 DEF StreamStep, OpenStream, CloseStream, Recv, GetStoredSelectors, BuildSVID,
                       BuildBaseSVID, UpdateAttestation, UpdateAttestedNodeEntry, SignCSRsDone, Send, Return, Fail, Tables
  <1>1. CASE End(c)
    BY Zenon, <1>1, <1>d, SignEnd
  <1>2. CASE OpenStream(c) \/ Recv(c)
    BY Zenon, <1>2, SignReceives
  <1>3. CASE GetStoredSelectors(c)
    <2>1. PICK C : call' = [call EXCEPT ![c].pc = "matching", ![c].combinations = C]
      BY Zenon, <1>3 DEF GetStoredSelectors
    <2> DEFINE r == [call[c] EXCEPT !.pc = "matching", !.combinations = C]
    <2>2. IsStreamed(call[c]) /\ call[c].pc # "recv"
      BY Zenon, <1>0, <1>3, InStream DEF GetStoredSelectors, At
    <2>3. /\ r.possible = call[c].possible /\ r.id = call[c].id /\ r.csrs = call[c].csrs
          /\ r.pc = "matching" /\ r.entries = call[c].entries /\ r.svids = call[c].svids
      BY Zenon, <2>2 DEF IsStreamed, StreamFields
    <2>4. call' = [call EXCEPT ![c] = r]
      BY Zenon, <2>1
    <2> HIDE DEF r
    <2> QED
      BY Zenon, <1>d, <2>2, <2>3, <2>4, SignStream
  <1>4. CASE BuildSVID(c) /\ ~End(c)
    <2>1. PICK i \in SpiffeIdsOf(call[c].entries) :
            call' = [call EXCEPT ![c].csrs = @ \ {i}, ![c].svids = @ \cup {i}]
      BY Zenon, <1>4 DEF BuildSVID
    <2> DEFINE r == [call[c] EXCEPT !.csrs = @ \ {i}, !.svids = @ \cup {i}]
    <2>2. IsStreamed(call[c]) /\ call[c].pc = "csrs"
      BY Zenon, <1>0, <1>4, InStream DEF BuildSVID, At
    <2>3. /\ r.possible = call[c].possible /\ r.id = call[c].id /\ r.csrs = call[c].csrs \ {i}
          /\ r.pc = "csrs" /\ r.entries = call[c].entries /\ r.svids = call[c].svids \cup {i}
      BY Zenon, <2>2 DEF IsStreamed, StreamFields
    <2>4. call' = [call EXCEPT ![c] = r]
      BY Zenon, <2>1
    <2> HIDE DEF r
    <2>5. \A j \in r.svids : j \in call[c].svids \/ j \in SpiffeIdsOf(call[c].entries)
      BY Zenon, <2>1, <2>3
    <2> QED
      BY Zenon, <1>d, <2>2, <2>3, <2>4, <2>5, SignStream
  <1>5. CASE BuildBaseSVID(c) /\ ~End(c)
    <2>1. PICK n : call' = [call EXCEPT ![c].pc = "update", ![c].serial = n]
      BY Zenon, <1>5 DEF BuildBaseSVID
    <2> DEFINE r == [call[c] EXCEPT !.pc = "update", !.serial = n]
    <2>2. IsStreamed(call[c]) /\ call[c].pc = "csrs"
      BY Zenon, <1>0, <1>5, InStream DEF BuildBaseSVID, At
    <2>3. /\ r.possible = call[c].possible /\ r.id = call[c].id /\ r.csrs = call[c].csrs
          /\ r.entries = call[c].entries /\ r.svids = call[c].svids
      BY Zenon, <2>2 DEF IsStreamed, StreamFields
    <2>4. call' = [call EXCEPT ![c] = r]
      BY Zenon, <2>1
    <2> HIDE DEF r
    <2>5. call[c].csrs \subseteq Workloads \cup {call[c].id}
      BY Zenon, <2>2 DEF SignInv, Grounded
    <2>6. r.id \notin Workloads
      BY Zenon, <1>5, <2>3, <2>5 DEF BuildBaseSVID, Workloads
    <2> QED
      BY Zenon, <1>d, <2>2, <2>3, <2>4, <2>6, SignStream
  <1>6. CASE UpdateAttestation(c)
    <2> DEFINE i == call[c].id
               r == [call[c] EXCEPT !.pc = "csrs", !.csrs = @ \ {i}, !.svids = @ \cup {i}]
    <2>1. call' = [call EXCEPT ![c] = r]
      BY Zenon, <1>6 DEF UpdateAttestation
    <2>2. IsStreamed(call[c]) /\ call[c].pc = "update"
      BY Zenon, <1>0, <1>6, InStream DEF UpdateAttestation, At
    <2>3. i \notin Workloads
      BY Zenon, <2>2 DEF SignInv, Grounded
    <2>4. /\ r.possible = call[c].possible /\ r.id = call[c].id /\ r.csrs = call[c].csrs \ {i}
          /\ r.pc = "csrs" /\ r.entries = call[c].entries /\ r.svids = call[c].svids \cup {i}
      BY Zenon, <2>2 DEF IsStreamed, StreamFields
    <2> HIDE DEF r, i
    <2>5. \A j \in r.svids : j \in call[c].svids \/ j \notin Workloads
      BY Zenon, <2>3, <2>4
    <2> QED
      BY Zenon, <1>d, <2>1, <2>2, <2>4, <2>5, SignStream
  <1>7. CASE SignCSRsDone(c)
    <2> DEFINE r == [call[c] EXCEPT !.pc = "bundle"]
    <2>1. call' = [call EXCEPT ![c] = r]
      BY Zenon, <1>7 DEF SignCSRsDone, Goto
    <2>2. IsStreamed(call[c]) /\ call[c].pc = "csrs"
      BY Zenon, <1>0, <1>7, InStream DEF SignCSRsDone, At
    <2>3. /\ r.possible = call[c].possible /\ r.id = call[c].id /\ r.csrs = call[c].csrs
          /\ r.pc = "bundle" /\ r.entries = call[c].entries /\ r.svids = call[c].svids
      BY Zenon, <2>2 DEF IsStreamed, StreamFields
    <2> HIDE DEF r
    <2> QED
      BY Zenon, <1>d, <2>1, <2>2, <2>3, SignStream
  <1>8. CASE Send(c)
    <2> DEFINE r == [call[c] EXCEPT !.pc = "recv", !.awaited = FALSE]
    <2>1. call' = [call EXCEPT ![c] = r]
      BY Zenon, <1>8 DEF Send
    <2>2. IsStreamed(call[c]) /\ call[c].pc = "respond"
      BY Zenon, <1>0, <1>8, InStream DEF Send, At
    <2>3. /\ r.possible = call[c].possible /\ r.id = call[c].id /\ r.csrs = call[c].csrs
          /\ r.pc = "recv" /\ r.entries = call[c].entries /\ r.svids = call[c].svids
      BY Zenon, <2>2 DEF IsStreamed, StreamFields
    <2> HIDE DEF r
    <2> QED
      BY Zenon, <1>d, <2>1, <2>2, <2>3, SignStream
  <1> QED
    BY Zenon, <1>1, <1>2, <1>3, <1>4, <1>5, <1>6, <1>7, <1>8 DEF StreamStep, CloseStream

\* The registration API: a new entry is possible for every stream that has a request, and a
\* deleted one keeps its SPIFFE ID.
LEMMA SignOthers ==
  ASSUME SignInv, TokenInv',
         \/ Tick
         \/ \E i \in Agents : AgentRestart(i)
         \/ \E t \in Tokens : CreateJoinToken(t)
         \/ \E e \in EntryIds : CreateEntry(e) \/ DeleteEntry(e)
         \/ UNCHANGED vars
  PROVE  SignInv'
  <1>0. TokenInv /\ DOMAIN db = Tables /\ DOMAIN call = Calls /\ EntryInv
    BY Zenon DEF SignInv, TokenInv, ShapeInv
  <1>1. CASE Tick \/ UNCHANGED vars
    BY Zenon, <1>1, SameEntries DEF Tick, vars, SignInv
  <1>2. ASSUME NEW i \in Agents, AgentRestart(i)
        PROVE  SignInv'
    <2>1. \A d \in Calls : IsStreamed(call[d]) => Grounded([call[d] EXCEPT !.awaited = FALSE])
      <3> SUFFICES ASSUME NEW d \in Calls, IsStreamed(call[d])
                   PROVE  Grounded([call[d] EXCEPT !.awaited = FALSE])
        BY Zenon
      <3> DEFINE r == [call[d] EXCEPT !.awaited = FALSE]
      <3>1. /\ r.possible = call[d].possible /\ r.id = call[d].id /\ r.csrs = call[d].csrs
            /\ r.pc = call[d].pc /\ r.entries = call[d].entries /\ r.svids = call[d].svids
        BY Zenon DEF IsStreamed, StreamFields
      <3>2. Grounded(call[d])
        BY Zenon DEF SignInv
      <3> HIDE DEF r
      <3>3. Grounded(r)
        BY Zenon, <3>1, <3>2 DEF Grounded
      <3> QED
        BY Zenon, <3>3 DEF r
    <2>2. \A d \in Calls : \/ call'[d] = call[d]
                           \/ ~At(d, "idle") /\ call'[d] = [call[d] EXCEPT !.awaited = FALSE]
      BY Zenon, <1>2 DEF AgentRestart
    <2>3. \A d \in Calls : ~At(d, "idle") => IsBase(call[d]) \/ IsStreamed(call[d])
      BY <1>0, Shapes DEF At, Idle
    <2>5. \A d \in Calls : IsBase(call[d]) => ~IsStreamed([call[d] EXCEPT !.awaited = FALSE])
      <3>1. "peer" \in StreamFields /\ "peer" \notin BaseFields
        BY Zenon DEF StreamFields, BaseFields
      <3> QED
        BY Zenon, <3>1 DEF IsBase, IsStreamed
    <2>4. \A d \in Calls : IsStreamed(call'[d]) => Grounded(call'[d])
      BY Zenon, <2>1, <2>2, <2>3, <2>5 DEF SignInv
    <2> QED
      BY Zenon, <1>2, <2>4, SameEntries DEF AgentRestart
  <1>3. ASSUME NEW t \in Tokens, CreateJoinToken(t)
        PROVE  SignInv'
    <2>1. db'.entry = db.entry /\ call' = call
      BY Zenon, <1>0, <1>3 DEF CreateJoinToken, RegisterToken, Return, Fail, Tables
    <2> QED
      BY Zenon, <2>1, SameEntries DEF SignInv
  <1>4. ASSUME NEW e \in EntryIds, CreateEntry(e)
        PROVE  SignInv'
    <2>1. PICK i \in Workloads, p \in Ids, S \in Combinations(Selectors) :
            /\ db' = CreateRegistrationEntry(db, e, [spiffe |-> i, parent |-> p,
                                                     selectors |-> AsList(S)]).db
            /\ call' = [c \in Calls |-> IF IsStream(c) /\ ~At(c, "recv")
                          THEN [call[c] EXCEPT !.possible = call[c].possible \cup {i}] ELSE call[c]]
      BY Zenon, <1>4 DEF CreateEntry
    <2>2. \/ db'.entry = db.entry
          \/ db'.entry = [db.entry EXCEPT ![e] = [row |-> "live", spiffe |-> i, parent |-> p]]
      BY Zenon, <1>0, <2>1 DEF CreateRegistrationEntry, StoreEntry, Return, Fail, Tables
    <2>3. EntryInv'
      BY Zenon, <1>0, <2>2 DEF EntryInv
    <2>4. \A f \in EntryIds : \/ db'.entry[f] = db.entry[f]
                              \/ f = e /\ db'.entry[f].row = "live" /\ db'.entry[f].spiffe = i
      BY <1>0, <2>2 DEF EntryInv
    <2>5. db.entry[e].row = "none"
      BY Zenon, <1>4 DEF CreateEntry
    <2>6. ASSUME NEW d \in Calls, IsStreamed(call'[d])
          PROVE  Grounded(call[d])'
      <3>1. IsStreamed(call[d]) <=> IsStream(d)
        BY Zenon, <1>0, Shapes
      <3>2. CASE call'[d] = call[d] /\ (~IsStream(d) \/ call[d].pc = "recv")
        <4>1. IsStreamed(call[d]) /\ call[d].pc = "recv"
          BY Zenon, <2>6, <3>1, <3>2
        <4> QED
          BY Zenon, <3>2, <4>1 DEF SignInv, Grounded
      <3>3. CASE /\ IsStream(d) /\ call[d].pc # "recv"
                 /\ call'[d] = [call[d] EXCEPT !.possible = call[d].possible \cup {i}]
        <4>1. /\ call'[d].possible = call[d].possible \cup {i} /\ call'[d].id = call[d].id
              /\ call'[d].csrs = call[d].csrs /\ call'[d].pc = call[d].pc
              /\ call'[d].entries = call[d].entries /\ call'[d].svids = call[d].svids
          BY Zenon, <3>1, <3>3 DEF IsStreamed, StreamFields
        <4>2. Grounded(call[d])
          BY Zenon, <3>1, <3>3 DEF SignInv
        <4>3. \A f \in call[d].entries : /\ f \in EntryIds /\ db'.entry[f].row # "none"
                                         /\ db'.entry[f].spiffe \in call[d].possible \cup {i}
          BY Zenon, <2>4, <3>3, <4>2 DEF Grounded
        <4>4. \A f \in LiveEntries(db') : db'.entry[f].spiffe \in call[d].possible \cup {i}
          BY Zenon, <2>4, <3>3, <4>2 DEF Grounded, LiveEntries
        <4> QED
          BY Zenon, <3>3, <4>1, <4>2, <4>3, <4>4 DEF Grounded
      <3> QED
        BY Zenon, <2>1, <3>2, <3>3 DEF At
    <2> QED
      BY Zenon, <2>3, <2>6 DEF SignInv, IsStreamed
  <1>5. ASSUME NEW e \in EntryIds, DeleteEntry(e)
        PROVE  SignInv'
    <2>1. call' = call /\ db' = DeleteRegistrationEntry(db, e).db
      BY Zenon, <1>5 DEF DeleteEntry
    <2>2. db'.entry = db.entry \/ db'.entry = [db.entry EXCEPT ![e].row = "dead"]
      BY Zenon, <1>0, <2>1 DEF DeleteRegistrationEntry, Return, Fail, Tables
    <2>3. EntryInv'
      BY Zenon, <1>0, <2>2 DEF EntryInv
    <2>4. \A f \in EntryIds : /\ db'.entry[f].spiffe = db.entry[f].spiffe
                              /\ db'.entry[f].row = db.entry[f].row \/ db'.entry[f].row = "dead"
      BY <1>0, <2>2 DEF EntryInv
    <2>5. LiveEntries(db') \subseteq LiveEntries(db)
      BY Zenon, <2>4 DEF LiveEntries
    <2>6. ASSUME NEW d \in Calls, IsStreamed(call[d])
          PROVE  Grounded(call[d])'
      <3>1. Grounded(call[d])
        BY Zenon, <2>6 DEF SignInv
      <3>2. LiveEntries(db') \subseteq EntryIds
        BY Zenon DEF LiveEntries
      <3> QED
        BY Zenon, <2>1, <2>4, <2>5, <3>1, <3>2 DEF Grounded
    <2> QED
      BY Zenon, <2>1, <2>3, <2>6 DEF SignInv, IsStreamed
  <1> QED
    BY Zenon, <1>1, <1>2, <1>3, <1>4, <1>5

\* FetchSVID signs for ids only that had an entry when the request arrived or got one since, for
\* any number of streams and whatever the registration API creates and deletes between the data
\* store calls of a request: a request starts with no entries, every list has live entries only,
\* and an entry keeps its SPIFFE ID.
THEOREM OnlyRegisteredAreSigned == Spec => []SignsOnlyRegistered
  <1>1. SignInv => SignsOnlyRegistered
    BY Zenon, Shapes DEF SignInv, Grounded, SignsOnlyRegistered
  <1>2. SignInv /\ TokenInv' /\ [Next]_vars => SignInv'
    <2> SUFFICES ASSUME SignInv, TokenInv', [Next]_vars PROVE SignInv'
      BY Zenon
    <2>1. ASSUME NEW c \in Calls, BaseStep(c)
          PROVE  SignInv'
      BY Zenon, <2>1, BaseSteps, SignOne
    <2> QED
      BY Zenon, <2>1, SignShared, SignStreams, SignOthers DEF Next
  <1> QED
    BY <1>1, <1>2, SignInit, TokenInvariant, PTL DEF Spec
================================================================================
