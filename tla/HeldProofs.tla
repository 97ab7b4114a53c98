------------------------------- MODULE HeldProofs -------------------------------
(***************************************************************************)
(* The row of an attested agent holds the serial number of the SVID the    *)
(* agent holds: the proof for any agents, calls and number of failures.    *)
(* An attestation or a renewal stores the serial number in one step,       *)
(* answers in a later one, and the agent takes the SVID in a third, with   *)
(* the calls of others between them; HeldInv says what every call in       *)
(* flight knows at each position, and that an agent waits for one of them. *)
(* A call the agent no longer waits for goes on, and whatever it stores    *)
(* leaves the agent in adrift until a call it waits for stores again.      *)
(***************************************************************************)
EXTENDS NodeAPIProofs

(***************************************************************************)
(* The SVID an agent holds and the serial number in its row.               *)
(***************************************************************************)
Has(n, i, s) == n[i].row = "live" /\ n[i].serial = s

\* The agent's own CSR is still to be signed.
OwnCSR(r) == r.id \in Agents /\ r.id \in r.csrs

\* What a stream knows at each position.
Ordered(r) ==
  /\ r.awaited \in BOOLEAN
  /\ r.id \in Agents => r.peer # 0
  /\ r.csrs \subseteq Workloads \cup {r.id}
  /\ r.pc \in {"recv", "bundle", "respond"} => r.csrs = {}
  /\ r.pc = "recv" => ~r.awaited
  /\ r.pc \in {"stored", "matching"} => r.serial = 0
  /\ r.pc = "update" => OwnCSR(r) /\ r.serial # 0
  /\ OwnCSR(r) /\ r.serial # 0 => r.pc = "update"
  /\ r.awaited => r.id \in Agents /\ r.csrs \subseteq {r.id} /\ (r.serial = 0 => OwnCSR(r))

ByPlugin(r) == IsBase(r) /\ r.token = "plugin"
Attests(r)  == ByPlugin(r) /\ r.awaited
Made(r)     == IsBase(r) /\ r.awaited /\ r.pc \in {"resolve", "matching", "bundle", "respond"}
Awaits(r)   == IsStreamed(r) /\ r.awaited
Stored(r)   == Awaits(r) /\ r.serial # 0 /\ r.pc # "update"

\* The record r can be the state of the call c, among the others.  An agent that waits for an
\* attestation with a plugin holds no SVID and waits for one call; one that waits for a renewal
\* holds an SVID and waits for one; and the row has the serial number of the SVID that a call
\* answers such an agent with.
Fits(n, k, h, a, c, r) ==
  /\ IsStreamed(r) => Ordered(r)
  /\ ByPlugin(r) => r.id \in PluginAgents
  /\ Attests(r) => /\ h[r.id] = 0
                   /\ \A d \in Calls \ {c} : Attests(k[d]) => k[d].id # r.id
  /\ Awaits(r) => /\ h[r.id] # 0
                  /\ \A d \in Calls \ {c} : Awaits(k[d]) => k[d].id # r.id
  /\ Made(r) \/ Stored(r) => r.id \in a \/ Has(n, r.id, r.serial)

\* What Fits says of the other calls' agents and rows.
Unharmed(n, k, h, a, c) ==
  \A d \in Calls \ {c} :
    /\ Attests(k[d]) => h[k[d].id] = 0
    /\ Awaits(k[d]) => h[k[d].id] # 0
    /\ Made(k[d]) \/ Stored(k[d]) => k[d].id \in a \/ Has(n, k[d].id, k[d].serial)

\* The row has the serial number of the SVID the agent holds, or of the one that replaces it.
Covered(n, k, h, a) ==
  \A i \in Agents : \/ h[i] = 0 \/ i \in a \/ Has(n, i, h[i])
                    \/ \E c \in Calls : Stored(k[c]) /\ k[c].id = i

HoldersGranted(h, g) ==
  DOMAIN h = Agents /\ \A t \in Tokens : h[AgentOf[t]] # 0 => g[t] # 0

HeldOf(n, k, h, a, g) ==
  /\ HoldersGranted(h, g)
  /\ \A c \in Calls : Fits(n, k, h, a, c, k[c])
  /\ Covered(n, k, h, a)

HeldInv == HeldOf(db.node, call, held, adrift, granted)

LEMMA HeldPrimed ==
  ASSUME HeldOf(db'.node, call', held', adrift', granted')
  PROVE  HeldInv'
  BY Zenon DEF HeldInv

\* A step of one call: what it must show of its new state, of the calls it leaves alone, and of
\* the agents.
LEMMA HeldStep ==
  ASSUME HeldInv, NEW c \in Calls, \A d \in Calls \ {c} : call'[d] = call[d],
         HoldersGranted(held', granted'), Fits(db'.node, call, held', adrift', c, call'[c]),
         Unharmed(db'.node, call, held', adrift', c), Covered(db'.node, call', held', adrift')
  PROVE  HeldInv'
  <1>1. \A d \in Calls : Fits(db.node, call, held, adrift, d, call[d])
    BY Zenon DEF HeldInv, HeldOf
  <1>2. Fits(db'.node, call', held', adrift', c, call'[c])
    BY Zenon DEF Fits
  <1>3. ASSUME NEW d \in Calls \ {c}
        PROVE  Fits(db'.node, call', held', adrift', d, call[d])
    <2>1. /\ IsStreamed(call[d]) => Ordered(call[d])
          /\ ByPlugin(call[d]) => call[d].id \in PluginAgents
      BY Zenon, <1>1 DEF Fits
    <2>2. Attests(call[d]) => \A e \in Calls \ {d} : Attests(call'[e]) => call'[e].id # call[d].id
      BY <1>1, <1>3 DEF Fits
    <2>3. Awaits(call[d]) => \A e \in Calls \ {d} : Awaits(call'[e]) => call'[e].id # call[d].id
      BY Zenon, <1>1, <1>3 DEF Fits
    <2> QED
      BY Zenon, <1>3, <2>1, <2>2, <2>3 DEF Fits, Unharmed
  <1>4. HeldOf(db'.node, call', held', adrift', granted')
    BY Zenon, <1>2, <1>3 DEF HeldOf
  <1> QED
    BY Zenon, <1>4, HeldPrimed

\* The same when rows, SVIDs and tokens stay as they are.
Quiet == db'.node = db.node /\ held' = held /\ granted' = granted

LEMMA HeldKeeps ==
  ASSUME HeldInv, NEW c \in Calls, \A d \in Calls \ {c} : call'[d] = call[d], adrift \subseteq adrift',
         Quiet, Fits(db.node, call, held, adrift', c, call'[c]),
         Stored(call[c]) => call[c].id \in adrift' \/ (Stored(call'[c]) /\ call'[c].id = call[c].id)
  PROVE  HeldInv'
  <1>1. HoldersGranted(held, granted)
    BY Zenon DEF HeldInv, HeldOf
  <1>2. Unharmed(db.node, call, held, adrift', c)
    BY Zenon DEF HeldInv, HeldOf, Fits, Unharmed
  <1>3. Covered(db.node, call', held, adrift')
    BY Zenon DEF HeldInv, HeldOf, Covered
  <1> QED
    BY Zenon, <1>1, <1>2, <1>3, HeldStep DEF Quiet

\* A call that has ended, a FetchBaseSVID call and a stream that go on.
LEMMA FitsIdle ==
  ASSUME NEW n, NEW k, NEW h, NEW a, NEW c
  PROVE  Fits(n, k, h, a, c, Idle) /\ ~Stored(Idle)
  <1>1. ~IsBase(Idle) /\ ~IsStreamed(Idle)
    BY Zenon DEF IsBase, IsStreamed, Idle, BaseFields, StreamFields
  <1> QED
    BY Zenon, <1>1 DEF Fits, ByPlugin, Attests, Made, Awaits, Stored

LEMMA Kinds == \A r : ~(IsBase(r) /\ IsStreamed(r))
  <1>1. "peer" \in StreamFields /\ "peer" \notin BaseFields
    BY Zenon DEF StreamFields, BaseFields
  <1> QED
    BY Zenon, <1>1 DEF IsBase, IsStreamed

LEMMA FitsBase ==
  ASSUME NEW n, NEW k, NEW h, NEW a, NEW c, NEW r, Fits(n, k, h, a, c, k[c]), IsBase(k[c]), IsBase(r),
         r.token = k[c].token, r.id = k[c].id, r.awaited = k[c].awaited,
         Made(r) => Made(k[c]) /\ r.serial = k[c].serial
  PROVE  Fits(n, k, h, a, c, r) /\ ~Stored(k[c])
  <1>1. ~IsStreamed(r) /\ ~IsStreamed(k[c])
    BY Zenon, Kinds
  <1> QED
    BY Zenon, <1>1 DEF Fits, ByPlugin, Attests, Awaits, Stored

LEMMA FitsStream ==
  ASSUME NEW n, NEW k, NEW h, NEW a, NEW c, NEW r, Fits(n, k, h, a, c, k[c]),
         IsStreamed(k[c]), IsStreamed(r), Ordered(r), r.id = k[c].id, r.awaited = k[c].awaited,
         Stored(r) => Stored(k[c]) /\ r.serial = k[c].serial
  PROVE  Fits(n, k, h, a, c, r)
  <1>1. ~IsBase(r) /\ ~IsBase(k[c])
    BY Zenon, Kinds
  <1> QED
    BY Zenon, <1>1 DEF Fits, ByPlugin, Attests, Made, Awaits

LEMMA HeldEnd ==
  ASSUME TokenInv, HeldInv, NEW c \in Calls, End(c), Quiet,
         adrift \subseteq adrift', Stored(call[c]) => call[c].id \in adrift'
  PROVE  HeldInv'
  <1>1. call'[c] = Idle /\ \A d \in Calls \ {c} : call'[d] = call[d]
    BY Zenon DEF End, TokenInv, ShapeInv
  <1> QED
    BY Zenon, <1>1, FitsIdle, HeldKeeps

LEMMA HeldBase ==
  ASSUME HeldInv, NEW c \in Calls, IsBase(call[c]), IsBase(call'[c]),
         \A d \in Calls \ {c} : call'[d] = call[d],
         call'[c].token = call[c].token, call'[c].id = call[c].id, call'[c].awaited = call[c].awaited,
         Made(call'[c]) => Made(call[c]) /\ call'[c].serial = call[c].serial,
         Quiet, adrift' = adrift
  PROVE  HeldInv'
  <1>1. Fits(db.node, call, held, adrift, c, call[c])
    BY Zenon DEF HeldInv, HeldOf
  <1>2. Fits(db.node, call, held, adrift, c, call'[c]) /\ ~Stored(call[c])
    BY Zenon, <1>1, FitsBase
  <1> QED
    BY Zenon, <1>2, HeldKeeps

LEMMA HeldStream ==
  ASSUME HeldInv, NEW c \in Calls, IsStreamed(call[c]), IsStreamed(call'[c]), Ordered(call'[c]),
         \A d \in Calls \ {c} : call'[d] = call[d],
         call'[c].id = call[c].id, call'[c].awaited = call[c].awaited,
         Stored(call[c]) => Stored(call'[c]),
         Stored(call'[c]) => Stored(call[c]) /\ call'[c].serial = call[c].serial,
         Quiet, adrift' = adrift
  PROVE  HeldInv'
  <1>1. Fits(db.node, call, held, adrift, c, call[c])
    BY Zenon DEF HeldInv, HeldOf
  <1>2. Fits(db.node, call, held, adrift, c, call'[c])
    BY Zenon, <1>1, FitsStream
  <1> QED
    BY Zenon, <1>2, HeldKeeps

LEMMA HeldInit == Init => HeldInv
  <1> SUFFICES ASSUME Init PROVE HeldInv
    BY Zenon
  <1>1. \A c \in Calls : call[c] = Idle
    BY Zenon DEF Init
  <1>2. \A i \in Agents : held[i] = 0
    BY Zenon DEF Init
  <1>3. HoldersGranted(held, granted) /\ Covered(db.node, call, held, adrift)
    BY Zenon, <1>2, NodeAssumption DEF Init, HoldersGranted, Covered
  <1> QED
    BY Zenon, <1>1, <1>3, FitsIdle DEF HeldInv, HeldOf

LEMMA PrimedShapes ==
  ASSUME TokenInv', NEW c \in Calls
  PROVE  /\ DOMAIN call'[c] = BaseFields => IsBase(call'[c])
         /\ DOMAIN call'[c] = StreamFields => IsStreamed(call'[c])
  <1>1. DOMAIN Idle = {"pc"} /\ "id" \in BaseFields /\ "id" \in StreamFields
    BY Zenon DEF Idle, BaseFields, StreamFields
  <1>2. "peer" \in StreamFields /\ "peer" \notin BaseFields
    BY Zenon DEF StreamFields, BaseFields
  <1>3. call'[c] = Idle \/ IsBase(call'[c]) \/ IsStreamed(call'[c])
    BY Zenon DEF TokenInv, ShapeInv, IsCall, IsBase, IsStreamed
  <1> QED
    BY <1>1, <1>2, <1>3 DEF IsBase, IsStreamed

MadeAt == {"resolve", "matching", "bundle", "respond"}

\* A FetchBaseSVID call that changes its position, and what else it has found.
LEMMA HeldMoves ==
  ASSUME TokenInv, TokenInv', HeldInv, NEW c \in Calls, IsBase(call[c]),
         \A d \in Calls \ {c} : call'[d] = call[d],
         DOMAIN call'[c] = BaseFields, call'[c].token = call[c].token, call'[c].id = call[c].id,
         call'[c].awaited = call[c].awaited, call'[c].serial = call[c].serial,
         call'[c].pc \in MadeAt => call[c].pc \in MadeAt,
         Quiet, adrift' = adrift
  PROVE  HeldInv'
  <1>1. IsBase(call'[c])
    BY Zenon, PrimedShapes
  <1>2. Made(call'[c]) => Made(call[c])
    BY Zenon, <1>1 DEF Made, MadeAt
  <1> QED
    BY Zenon, <1>1, <1>2, HeldBase

LEMMA HeldGoto ==
  ASSUME TokenInv, TokenInv', HeldInv, NEW c \in Calls, IsBase(call[c]), NEW pc, Goto(c, pc),
         pc \in MadeAt => call[c].pc \in MadeAt, Quiet, adrift' = adrift
  PROVE  HeldInv'
  <1>1. /\ \A d \in Calls \ {c} : call'[d] = call[d]
        /\ DOMAIN call'[c] = BaseFields /\ call'[c].pc = pc
        /\ call'[c].token = call[c].token /\ call'[c].id = call[c].id
        /\ call'[c].serial = call[c].serial /\ call'[c].awaited = call[c].awaited
    BY Zenon DEF Goto, TokenInv, ShapeInv, IsBase, BaseFields
  <1> QED
    BY Zenon, <1>1, HeldMoves

LEMMA HeldBaseSteps ==
  ASSUME TokenInv, TokenInv', HeldInv, NEW c \in Calls,
         \/ IsAttested(c) \/ Attest(c) \/ FetchJoinToken(c) \/ DeleteJoinToken(c)
         \/ ResolveSelector(c) \/ Resolve(c)
  PROVE  HeldInv'
  <1>0. IsBase(call[c]) /\ DOMAIN call = Calls /\ DOMAIN db = Tables
    BY Zenon, InBase
       DEF IsAttested, Attest, FetchJoinToken, DeleteJoinToken, ResolveSelector, Resolve, At,
           TokenInv, ShapeInv
  <1>1. db'.node = db.node
    BY Zenon, <1>0 DEF IsAttested, Attest, FetchJoinToken, DeleteJoinToken, ResolveSelector, Resolve,
                       DeleteToken, CreateNodeResolverMapEntry, Return, Fail, Tables
  <1>2. Quiet /\ adrift' = adrift
    BY Zenon, <1>1
       DEF IsAttested, Attest, FetchJoinToken, DeleteJoinToken, ResolveSelector, Resolve, Rest, Quiet
  <1>3. ~Stored(call[c])
    BY Zenon, <1>0, Kinds DEF Stored, Awaits
  <1>4. CASE End(c)
    BY Zenon, <1>2, <1>3, <1>4, HeldEnd
  <1>5. CASE \E pc \in {"fetchToken", "expired", "deleteToken", "store"} : Goto(c, pc)
    <2>1. PICK pc \in {"fetchToken", "expired", "deleteToken", "store"} : Goto(c, pc)
      BY Zenon, <1>5
    <2>2. pc \notin MadeAt
      BY Zenon DEF MadeAt
    <2> QED
      BY Zenon, <1>0, <1>2, <2>1, <2>2, HeldGoto
  <1>6. CASE IsAttested(c) /\ \E b : call' = [call EXCEPT ![c].pc = "attest", ![c].before = b]
    <2>1. PICK b : call' = [call EXCEPT ![c].pc = "attest", ![c].before = b]
      BY Zenon, <1>6
    <2>2. /\ \A d \in Calls \ {c} : call'[d] = call[d]
          /\ DOMAIN call'[c] = BaseFields /\ call'[c].pc \notin MadeAt
          /\ call'[c].token = call[c].token /\ call'[c].id = call[c].id
          /\ call'[c].serial = call[c].serial /\ call'[c].awaited = call[c].awaited
      BY Zenon, <1>0, <2>1 DEF IsBase, BaseFields, MadeAt
    <2> QED
      BY Zenon, <1>0, <1>2, <2>2, HeldMoves
  <1>7. CASE ResolveSelector(c) /\ ~End(c)
    <2>1. PICK s : call' = [call EXCEPT ![c].todo = @ \ {s}]
      BY Zenon, <1>7 DEF ResolveSelector
    <2>2. /\ \A d \in Calls \ {c} : call'[d] = call[d]
          /\ DOMAIN call'[c] = BaseFields /\ call'[c].pc = call[c].pc
          /\ call'[c].token = call[c].token /\ call'[c].id = call[c].id
          /\ call'[c].serial = call[c].serial /\ call'[c].awaited = call[c].awaited
      BY Zenon, <1>0, <2>1 DEF IsBase, BaseFields
    <2> QED
      BY Zenon, <1>0, <1>2, <2>2, HeldMoves
  <1>8. CASE Resolve(c)
    <2>1. PICK C : call' = [call EXCEPT ![c].pc = "matching", ![c].combinations = C]
      BY Zenon, <1>8 DEF Resolve
    <2>2. /\ \A d \in Calls \ {c} : call'[d] = call[d]
          /\ DOMAIN call'[c] = BaseFields
          /\ call'[c].token = call[c].token /\ call'[c].id = call[c].id
          /\ call'[c].serial = call[c].serial /\ call'[c].awaited = call[c].awaited
      BY Zenon, <1>0, <2>1 DEF IsBase, BaseFields
    <2>3. call[c].pc \in MadeAt
      BY Zenon, <1>8 DEF Resolve, At, MadeAt
    <2> QED
      BY Zenon, <1>0, <1>2, <2>2, <2>3, HeldMoves
  <1>9. CASE IsAttested(c)
    BY Zenon, <1>4, <1>5, <1>6, <1>9 DEF IsAttested
  <1>10. CASE Attest(c) \/ FetchJoinToken(c) \/ DeleteJoinToken(c)
    BY Zenon, <1>4, <1>5, <1>10 DEF Attest, FetchJoinToken, DeleteJoinToken
  <1> QED
    BY Zenon, <1>4, <1>7, <1>8, <1>9, <1>10

LEMMA HeldFetchBaseSVID ==
  ASSUME TokenInv, TokenInv', HeldInv, NEW c \in Calls, FetchBaseSVID(c)
  PROVE  HeldInv'
  <1>0. DOMAIN call = Calls
    BY Zenon DEF TokenInv, ShapeInv
  <1>1. PICK i \in Agents, t \in Tokens \cup {"plugin"} :
          /\ t = "plugin" => i \in PluginAgents /\ held[i] = 0 /\ ~Attesting(i)
          /\ call' = [call EXCEPT ![c] =
               [pc |-> "isAttested", token |-> t, id |-> i, awaited |-> TRUE, before |-> FALSE,
                serial |-> 0, todo |-> {}, combinations |-> {}, entries |-> {}]]
    BY Zenon DEF FetchBaseSVID
  <1>2. /\ \A d \in Calls \ {c} : call'[d] = call[d]
        /\ DOMAIN call'[c] = BaseFields /\ call'[c].pc = "isAttested"
        /\ call'[c].token = t /\ call'[c].id = i
    BY Zenon, <1>0, <1>1 DEF BaseFields
  <1>3. IsBase(call'[c]) /\ ~IsStreamed(call'[c])
    BY Zenon, <1>2, PrimedShapes, Kinds
  <1>4. ~Made(call'[c]) /\ ~Awaits(call'[c]) /\ ~Stored(call'[c])
    BY Zenon, <1>2, <1>3 DEF Made, Awaits, Stored
  <1>5. \A d \in Calls : Attests(call[d]) /\ call[d].id = i => Attesting(i)
    <2>1. \A d \in Calls : IsBase(call[d]) => ~IsStream(d) /\ ~At(d, "idle")
      BY Zenon, Shapes DEF IsBase, At
    <2> QED
      BY Zenon, <2>1 DEF ByPlugin, Attests, Attesting, Awaited
  <1>6. Fits(db.node, call, held, adrift, c, call'[c])
    BY Zenon, <1>1, <1>2, <1>3, <1>4, <1>5 DEF Fits, ByPlugin, Attests
  <1>7. ~Stored(call[c])
    BY Zenon, Shapes DEF FetchBaseSVID, At, Stored, Awaits, IsStreamed
  <1>8. Quiet /\ adrift' = adrift
    BY Zenon DEF FetchBaseSVID, Rest, Quiet
  <1> QED
    BY Zenon, <1>2, <1>6, <1>7, <1>8, HeldKeeps

\* The agent that waits for a FetchBaseSVID call's answer holds no SVID, and waits for no other
\* call.
LEMMA HoldsNone ==
  ASSUME TokenInv, HeldInv, NEW c \in Calls, Made(call[c])
  PROVE  /\ call[c].id \in Agents /\ held[call[c].id] = 0
         /\ IF call[c].token = "plugin"
              THEN call[c].id \in PluginAgents
              ELSE call[c].token \in Tokens /\ call[c].id = AgentOf[call[c].token]
         /\ \A d \in Calls \ {c} : Attests(call[d]) \/ Awaits(call[d]) => call[d].id # call[c].id
  <1>1. IsBase(call[c]) /\ call[c].id \in Agents /\ call[c].token \in Tokens \cup {"plugin"}
    BY Zenon DEF Made, IsBase
  <1>2. \A d \in Calls : Fits(db.node, call, held, adrift, d, call[d])
    BY Zenon DEF HeldInv, HeldOf
  <1>3. \A d \in Calls : Awaits(call[d]) => held[call[d].id] # 0
    BY Zenon, <1>2 DEF Fits
  <1>4. CASE call[c].token = "plugin"
    <2>1. Attests(call[c]) /\ ByPlugin(call[c])
      BY Zenon, <1>4 DEF Made, Attests, ByPlugin
    <2> QED
      BY Zenon, <1>1, <1>2, <1>3, <1>4, <2>1 DEF Fits
  <1>5. CASE call[c].token # "plugin"
    <2>1. Answering(call[c])
      BY Zenon, <1>1, <1>5 DEF Made, Answering
    <2>2. call[c].id = AgentOf[call[c].token] /\ granted[call[c].token] = 0
      BY Zenon, <2>1 DEF TokenInv
    <2>3. held[call[c].id] = 0
      BY Zenon, <1>1, <1>5, <2>2 DEF HeldInv, HeldOf, HoldersGranted
    <2>4. call[c].id \notin PluginAgents
      BY Zenon, <1>1, <1>5, <2>2 DEF PluginAgents, TokenAgents
    <2>5. \A d \in Calls : Attests(call[d]) => call[d].id # call[c].id
      BY Zenon, <1>2, <2>4 DEF Fits, Attests
    <2> QED
      BY Zenon, <1>1, <1>3, <1>5, <2>2, <2>3, <2>5
  <1> QED
    BY Zenon, <1>4, <1>5

\* The row of i is written: nobody else relies on it.
Free(c, i) ==
  /\ held[i] = 0
  /\ \A d \in Calls \ {c} : Made(call[d]) \/ Stored(call[d]) => call[d].id # i

LEMMA StoreFree ==
  ASSUME TokenInv, HeldInv, NEW c \in Calls, IsBase(call[c]), call[c].pc = "store", call[c].awaited,
         call[c].token = "plugin" \/ db.node[call[c].id].row = "none"
  PROVE  Free(c, call[c].id)
  <1> DEFINE i == call[c].id
  <1>1. \A d \in Calls : Fits(db.node, call, held, adrift, d, call[d])
    BY Zenon DEF HeldInv, HeldOf
  <1>2. i \in Agents /\ call[c].token \in Tokens \cup {"plugin"}
    BY Zenon DEF IsBase
  <1>3. held[i] = 0 => \A d \in Calls : Stored(call[d]) => call[d].id # i
    BY Zenon, <1>1 DEF Fits, Stored
  <1>4. CASE call[c].token = "plugin"
    <2>1. Attests(call[c])
      BY Zenon, <1>4 DEF Attests, ByPlugin
    <2>2. held[i] = 0
      BY Zenon, <1>1, <2>1 DEF Fits
    <2>3. \A d \in Calls \ {c} : Made(call[d]) => call[d].id # i
      BY Zenon, <2>1, HoldsNone
    <2> QED
      BY Zenon, <1>3, <2>2, <2>3 DEF Free
  <1>5. CASE call[c].token # "plugin" /\ db.node[i].row = "none"
    <2>1. call[c].token \in Tokens /\ i = AgentOf[call[c].token]
      BY Zenon, <1>2, <1>5 DEF TokenInv
    <2>2. ~HasRow(i)
      BY Zenon, <1>5 DEF HasRow
    <2>3. granted[call[c].token] = 0
      BY <2>1, <2>2 DEF TokenInv, ShapeInv
    <2>4. held[i] = 0
      BY Zenon, <2>1, <2>3 DEF HeldInv, HeldOf, HoldersGranted
    <2>5. ASSUME NEW d \in Calls, Made(call[d]), call[d].id = i
          PROVE  FALSE
      <3>1. CASE call[d].token = "plugin"
        <4>1. i \in PluginAgents
          BY Zenon, <1>1, <2>5, <3>1 DEF Fits, ByPlugin, Made
        <4> QED
          BY Zenon, <2>1, <4>1 DEF PluginAgents, TokenAgents
      <3>2. CASE call[d].token # "plugin"
        <4>1. Answering(call[d])
          BY Zenon, <2>5, <3>2 DEF Made, Answering
        <4> QED
          BY Zenon, <2>2, <2>5, <4>1 DEF TokenInv
      <3> QED
        BY Zenon, <3>1, <3>2
    <2> QED
      BY Zenon, <1>3, <2>4, <2>5 DEF Free
  <1> QED
    BY Zenon, <1>4, <1>5

\* createAttestationEntry and updateAttestationEntry write one row.
Wrote(i, s) ==
  /\ \A j \in Ids \ {i} : db'.node[j] = db.node[j]
  /\ Has(db'.node, i, s)

LEMMA Writes ==
  ASSUME TokenInv, NEW i \in Ids, NEW s
  PROVE  /\ db' = UpdateAttestedNodeEntry(db, i, s).db /\ ~UpdateAttestedNodeEntry(db, i, s).err
              => Wrote(i, s)
         /\ db' = CreateAttestedNodeEntry(db, i, s).db /\ ~CreateAttestedNodeEntry(db, i, s).err
              => Wrote(i, s) /\ db.node[i].row = "none"
  <1>0. DOMAIN db = Tables /\ db.node \in [Ids -> [row: Row, serial: Nat]]
    BY Zenon DEF TokenInv, ShapeInv
  <1>1. ASSUME db' = UpdateAttestedNodeEntry(db, i, s).db, ~UpdateAttestedNodeEntry(db, i, s).err
        PROVE  Wrote(i, s)
    <2>1. db.node[i].row = "live" /\ db' = [db EXCEPT !.node[i].serial = s]
      BY Zenon, <1>1 DEF UpdateAttestedNodeEntry, Return, Fail
    <2>2. db'.node = [db.node EXCEPT ![i].serial = s]
      BY Zenon, <1>0, <2>1 DEF Tables
    <2> QED
      BY <1>0, <2>1, <2>2 DEF Wrote, Has
  <1>2. ASSUME db' = CreateAttestedNodeEntry(db, i, s).db, ~CreateAttestedNodeEntry(db, i, s).err
        PROVE  Wrote(i, s) /\ db.node[i].row = "none"
    <2>1. db.node[i].row = "none" /\ db' = [db EXCEPT !.node[i] = [row |-> "live", serial |-> s]]
      BY Zenon, <1>2 DEF CreateAttestedNodeEntry, Return, Fail
    <2>2. db'.node = [db.node EXCEPT ![i] = [row |-> "live", serial |-> s]]
      BY Zenon, <1>0, <2>1 DEF Tables
    <2> QED
      BY <1>0, <2>1, <2>2 DEF Wrote, Has
  <1> QED
    BY Zenon, <1>1, <1>2

LEMMA HeldStoreAttestation ==
  ASSUME TokenInv, TokenInv', HeldInv, NEW c \in Calls, StoreAttestation(c)
  PROVE  HeldInv'
  <1> USE NodeAssumption
  <1> DEFINE i == call[c].id
             r == IF call[c].before THEN UpdateAttestedNodeEntry(db, i, last + 1)
                                    ELSE CreateAttestedNodeEntry(db, i, last + 1)
  <1>1. IsBase(call[c]) /\ call[c].pc = "store" /\ DOMAIN call = Calls
    BY Zenon, InBase DEF StoreAttestation, At, TokenInv, ShapeInv
  <1>2. i \in Agents /\ i \in Ids /\ (call[c].before => call[c].token = "plugin")
    BY Zenon, <1>1 DEF IsBase
  <1>3. db' = r.db /\ last' = last + 1 /\ held' = held /\ granted' = granted
    BY Zenon DEF StoreAttestation
  <1>n. ~Stored(call[c])
    BY Zenon, <1>1, Kinds DEF Stored, Awaits
  <1>4. CASE r.err /\ End(c) /\ adrift' = adrift
    <2>1. r.db = db
      BY Zenon, <1>4 DEF UpdateAttestedNodeEntry, CreateAttestedNodeEntry, Return, Fail
    <2> HIDE DEF r
    <2> QED
      BY Zenon, <1>n, <1>3, <1>4, <2>1, HeldEnd DEF Quiet
  <1>5. CASE /\ ~r.err /\ adrift' = Adrift(c)
             /\ call' = [call EXCEPT ![c].pc = "resolve", ![c].serial = last', ![c].todo = Resolved[i]]
    <2>1. Wrote(i, last') /\ (call[c].token = "plugin" \/ db.node[i].row = "none")
      BY Zenon, <1>2, <1>3, <1>5, Writes
    <2> HIDE DEF r
    <2>2. /\ held[i] = 0 \/ i \in adrift'
          /\ \A d \in Calls \ {c} : Made(call[d]) \/ Stored(call[d]) => call[d].id # i \/ i \in adrift'
          /\ \A j : j # i /\ j \in adrift => j \in adrift'
      <3>1. CASE call[c].awaited
        <4>1. Free(c, i)
          BY Zenon, <1>1, <2>1, <3>1, StoreFree
        <4>2. adrift' = adrift \ {i}
          BY Zenon, <1>5, <3>1 DEF Adrift
        <4> QED
          BY Zenon, <4>1, <4>2 DEF Free
      <3>2. CASE ~call[c].awaited
        <4>1. adrift' = adrift \cup {i}
          BY Zenon, <1>5, <3>2 DEF Adrift
        <4> QED
          BY Zenon, <4>1
      <3> QED
        BY Zenon, <3>1, <3>2
    <2>3. /\ \A d \in Calls \ {c} : call'[d] = call[d]
          /\ DOMAIN call'[c] = BaseFields /\ call'[c].serial = last'
          /\ call'[c].token = call[c].token /\ call'[c].id = i /\ call'[c].awaited = call[c].awaited
      BY Zenon, <1>1, <1>5 DEF IsBase, BaseFields
    <2>4. IsBase(call'[c]) /\ ~IsStreamed(call'[c])
      BY Zenon, <2>3, PrimedShapes, Kinds
    <2>5. \A d \in Calls : Fits(db.node, call, held, adrift, d, call[d])
      BY Zenon DEF HeldInv, HeldOf
    <2>6. Fits(db'.node, call, held, adrift', c, call'[c])
      <3>1. /\ ~Awaits(call'[c]) /\ ~Stored(call'[c])
            /\ ByPlugin(call'[c]) => ByPlugin(call[c])
            /\ Attests(call'[c]) => Attests(call[c])
        BY Zenon, <1>1, <2>3, <2>4 DEF ByPlugin, Attests, Awaits, Stored
      <3>2. Has(db'.node, i, last')
        BY Zenon, <2>1 DEF Wrote
      <3>3. Fits(db.node, call, held, adrift, c, call[c])
        BY Zenon, <2>5
      <3> QED
        BY Zenon, <2>3, <2>4, <3>1, <3>2, <3>3 DEF Fits
    <2>7. \A j \in Ids : \A s : Has(db.node, j, s) /\ j # i => Has(db'.node, j, s)
      BY Zenon, <2>1 DEF Wrote, Has
    <2>8. \A d \in Calls : Made(call[d]) \/ Stored(call[d]) => call[d].id \in Ids
      BY Zenon DEF Made, Stored, Awaits, IsBase, IsStreamed
    <2>9. Unharmed(db'.node, call, held, adrift', c)
      BY Zenon, <2>2, <2>5, <2>7, <2>8 DEF Fits, Unharmed
    <2>10. \A j \in Agents : \/ held[j] = 0 \/ j \in adrift \/ Has(db.node, j, held[j])
                             \/ \E d \in Calls \ {c} : Stored(call[d]) /\ call[d].id = j
      BY Zenon, <1>n DEF HeldInv, HeldOf, Covered
    <2>11. Covered(db'.node, call', held, adrift')
      BY Zenon, <2>2, <2>3, <2>7, <2>10 DEF Covered
    <2>12. HoldersGranted(held, granted)
      BY Zenon DEF HeldInv, HeldOf
    <2> QED
      BY Zenon, <1>3, <2>3, <2>6, <2>9, <2>11, <2>12, HeldStep
  <1> QED
    BY ZenonT(60), <1>4, <1>5 DEF StoreAttestation

LEMMA HeldRespond ==
  ASSUME TokenInv, HeldInv, NEW c \in Calls, Respond(c)
  PROVE  HeldInv'
  <1> USE NodeAssumption
  <1> DEFINE i == call[c].id
             t == call[c].token
  <1>1. IsBase(call[c]) /\ call[c].pc = "respond" /\ DOMAIN call = Calls /\ granted \in [Tokens -> Nat]
    <2>1. call[c].pc = "respond" /\ ~IsStream(c)
      BY Zenon DEF Respond, At
    <2>2. call[c] # Idle
      BY <2>1 DEF Idle
    <2>3. IsBase(call[c])
      BY Zenon, <2>1, <2>2, Shapes
    <2>4. DOMAIN call = Calls /\ granted \in [Tokens -> Nat]
      BY Zenon DEF TokenInv, ShapeInv
    <2> QED
      BY Zenon, <2>1, <2>3, <2>4
  <1>2. ~Stored(call[c]) /\ t \in Tokens \cup {"plugin"}
    BY Zenon, <1>1, Kinds DEF Stored, Awaits, IsBase
  <1>3. call'[c] = Idle /\ \A d \in Calls \ {c} : call'[d] = call[d]
    BY Zenon, <1>1 DEF Respond, End
  <1>4. db' = db /\ adrift' = adrift
    BY Zenon DEF Respond
  <1>5. granted' = IF t = "plugin" THEN granted ELSE [granted EXCEPT ![t] = granted[t] + 1]
    BY Zenon DEF Respond
  <1>6. \A u \in Tokens : granted[u] # 0 => granted'[u] # 0
    <2> HIDE DEF t
    <2> QED
      BY <1>1, <1>2, <1>5
  <1>7. /\ \A d \in Calls : Fits(db.node, call, held, adrift, d, call[d])
        /\ HoldersGranted(held, granted) /\ Covered(db.node, call, held, adrift)
    BY Zenon DEF HeldInv, HeldOf
  <1>8. Fits(db.node, call, held', adrift, c, call'[c])
    BY Zenon, <1>3, FitsIdle
  \* Nobody takes the SVID.
  <1>9. CASE held' = held
    <2>1. HoldersGranted(held', granted')
      BY Zenon, <1>6, <1>7, <1>9 DEF HoldersGranted
    <2>2. Unharmed(db.node, call, held', adrift, c)
      BY Zenon, <1>7, <1>9 DEF Fits, Unharmed
    <2>3. Covered(db.node, call', held', adrift)
      BY Zenon, <1>2, <1>3, <1>7, <1>9 DEF Covered
    <2> QED
      BY Zenon, <1>3, <1>4, <1>8, <2>1, <2>2, <2>3, HeldStep
  \* The agent takes it.
  <1>10. CASE call[c].awaited /\ held' = [held EXCEPT ![i] = call[c].serial]
    <2>1. Made(call[c])
      BY Zenon, <1>1, <1>10 DEF Made
    <2>2. /\ i \in Agents /\ held[i] = 0
          /\ t = "plugin" => i \in PluginAgents
          /\ t # "plugin" => t \in Tokens /\ i = AgentOf[t]
          /\ \A d \in Calls \ {c} : Attests(call[d]) \/ Awaits(call[d]) => call[d].id # i
      BY Zenon, <2>1, HoldsNone
    <2>3. /\ DOMAIN held' = Agents /\ held'[i] = call[c].serial
          /\ \A j \in Agents \ {i} : held'[j] = held[j]
      BY Zenon, <1>7, <1>10, <2>2 DEF HoldersGranted
    <2>4. HoldersGranted(held', granted')
      <3> HIDE DEF t
      <3>1. \A u \in Tokens : AgentOf[u] = i => granted'[u] # 0
        BY <1>1, <1>5, <2>2 DEF PluginAgents, TokenAgents
      <3> QED
        BY Zenon, <1>6, <1>7, <2>3, <3>1 DEF HoldersGranted
    <2>5. \A d \in Calls : Attests(call[d]) => call[d].id \in Agents
      BY Zenon DEF Attests, ByPlugin, IsBase
    <2>6. \A d \in Calls : Awaits(call[d]) => call[d].id \in Agents
      BY Zenon, <1>7 DEF Fits, Ordered, Awaits
    <2>7. Unharmed(db.node, call, held', adrift, c)
      BY Zenon, <1>7, <2>2, <2>3, <2>5, <2>6 DEF Unharmed, Fits
    <2>8. i \in adrift \/ Has(db.node, i, call[c].serial)
      BY Zenon, <1>7, <2>1 DEF Fits
    <2>9. Covered(db.node, call', held', adrift)
      BY <1>2, <1>3, <1>7, <2>3, <2>8 DEF Covered
    <2> QED
      BY Zenon, <1>3, <1>4, <1>8, <2>4, <2>7, <2>9, HeldStep
  <1> QED
    BY Zenon, <1>9, <1>10 DEF Respond

\* The bundle that the CA manager published stays, so that getBundle finds it.
Published == db.bundle[TrustDomain].row = "live"

LEMMA PublishedInit == Init => Published
  <1> SUFFICES ASSUME Init PROVE Published
    BY Zenon
  <1>1. EmptyDB.bundle = [d \in Domains |-> [row |-> "none", certs |-> {}]] /\ "bundle" \in DOMAIN EmptyDB
    BY Zenon DEF EmptyDB
  <1>2. EmptyDB.bundle[TrustDomain].row = "none"
    BY <1>1, NodeAssumption
  <1>3. db = [EmptyDB EXCEPT !.bundle[TrustDomain] = [row |-> "live", certs |-> Certs]]
    BY Zenon, <1>2 DEF Init, AppendBundle, CreateBundle, Return, Fail
  <1> QED
    BY Zenon, <1>1, <1>3, NodeAssumption DEF Published

LEMMA PublishedNext ==
  ASSUME TokenInv, Published, [Next]_vars
  PROVE  Published'
  <1>0. DOMAIN db = Tables /\ "bundle" \in Tables /\ "node" \in Tables
    BY Zenon DEF TokenInv, ShapeInv, Tables
  <1> USE DEF Return, Fail, Published
  <1>1. ASSUME NEW c \in Calls, BaseStep(c)
        PROVE  Published'
    <2>1. CASE DeleteJoinToken(c)
      BY Zenon, <1>0, <2>1 DEF DeleteJoinToken, DeleteToken
    <2>2. CASE StoreAttestation(c)
      BY Zenon, <1>0, <2>2 DEF StoreAttestation, UpdateAttestedNodeEntry, CreateAttestedNodeEntry
    <2>3. CASE ResolveSelector(c)
      BY Zenon, <1>0, <2>3 DEF ResolveSelector, CreateNodeResolverMapEntry
    <2>4. CASE db' = db
      BY Zenon, <2>4
    <2> QED
      BY Zenon, <1>1, <2>1, <2>2, <2>3, <2>4
         DEF BaseStep, FetchBaseSVID, IsAttested, Attest, FetchJoinToken, Resolve, Respond
  <1>2. ASSUME NEW c \in Calls, StreamStep(c)
        PROVE  Published'
    <2>1. CASE UpdateAttestation(c)
      BY Zenon, <1>0, <2>1 DEF UpdateAttestation, UpdateAttestedNodeEntry
    <2>2. CASE db' = db
      BY Zenon, <2>2
    <2> QED
      BY Zenon, <1>2, <2>1, <2>2
         DEF StreamStep, OpenStream, CloseStream, Recv, GetStoredSelectors, BuildSVID,
             BuildBaseSVID, SignCSRsDone, Send
  <1>3. ASSUME NEW c \in Calls, SharedStep(c)
        PROVE  Published'
    BY Zenon, <1>3 DEF SharedStep, FetchMatching, FetchChildren, GetBundle, Abort, CARefuses
  <1>4. ASSUME NEW t \in Tokens, CreateJoinToken(t)
        PROVE  Published'
    BY Zenon, <1>0, <1>4 DEF CreateJoinToken, RegisterToken
  <1>5. ASSUME NEW e \in EntryIds, CreateEntry(e)
        PROVE  Published'
    <2>1. PICK q : db' = CreateRegistrationEntry(db, e, q).db
      BY Zenon, <1>5 DEF CreateEntry
    <2> QED
      BY Zenon, <1>0, <2>1 DEF CreateRegistrationEntry, StoreEntry
  <1>6. ASSUME NEW e \in EntryIds, DeleteEntry(e)
        PROVE  Published'
    BY Zenon, <1>0, <1>6 DEF DeleteEntry, DeleteRegistrationEntry
  <1>7. CASE Tick \/ (\E i \in Agents : AgentRestart(i)) \/ UNCHANGED vars
    BY Zenon, <1>7 DEF Tick, AgentRestart, vars
  <1> QED
    BY Zenon, <1>1, <1>2, <1>3, <1>4, <1>5, <1>6, <1>7 DEF Next

LEMMA StreamFacts ==
  ASSUME HeldInv, NEW c \in Calls, IsStreamed(call[c])
  PROVE  /\ Ordered(call[c])
         /\ call[c].pc \in {"recv", "stored", "matching", "update"} => ~Stored(call[c])
         /\ call[c].csrs \cap Agents # {} => OwnCSR(call[c]) /\ ~Stored(call[c])
         /\ call[c].csrs \cap Workloads # {} => ~call[c].awaited
  <1>1. Ordered(call[c])
    BY Zenon DEF HeldInv, HeldOf, Fits
  <1>2. Workloads \cap Agents = {}
    BY Zenon DEF Workloads
  <1>3. call[c].pc \in {"recv", "stored", "matching", "update"} => ~Stored(call[c])
    BY Zenon, <1>1 DEF Ordered, Stored, Awaits
  <1>4. call[c].csrs \cap Agents # {} => OwnCSR(call[c]) /\ ~Stored(call[c])
    BY Zenon, <1>1, <1>2 DEF Ordered, OwnCSR, Stored
  <1>5. call[c].csrs \cap Workloads # {} => ~call[c].awaited
    BY Zenon, <1>1, <1>2 DEF Ordered
  <1> QED
    BY Zenon, <1>1, <1>3, <1>4, <1>5

\* A stream's step by what it makes of the stream.
LEMMA HeldFlows ==
  ASSUME TokenInv', HeldInv, NEW c \in Calls, IsStreamed(call[c]),
         \A d \in Calls \ {c} : call'[d] = call[d],
         DOMAIN call'[c] = StreamFields, Ordered(call'[c]),
         call'[c].id = call[c].id, call'[c].awaited = call[c].awaited,
         \/ call'[c].serial = call[c].serial /\ call[c].pc # "update" /\ call'[c].pc # "update"
         \/ ~Stored(call[c]) /\ ~Stored(call'[c]),
         Quiet, adrift' = adrift
  PROVE  HeldInv'
  <1>1. IsStreamed(call'[c])
    BY Zenon, PrimedShapes
  <1>2. (Stored(call[c]) <=> Stored(call'[c])) /\ (Stored(call'[c]) => call'[c].serial = call[c].serial)
    BY Zenon, <1>1 DEF Stored, Awaits
  <1> QED
    BY Zenon, <1>1, <1>2, HeldStream

LEMMA HeldShared ==
  ASSUME TokenInv, TokenInv', HeldInv, Published, NEW c \in Calls, SharedStep(c)
  PROVE  HeldInv'
  <1>0. DOMAIN call = Calls
    BY Zenon DEF TokenInv, ShapeInv
  <1>1. Quiet
    BY Zenon DEF SharedStep, FetchMatching, FetchChildren, GetBundle, Abort, CARefuses, Rest, Quiet
  <1>2. CASE FetchMatching(c)
    <2>1. call[c].pc = "matching" /\ adrift' = adrift /\ (IsBase(call[c]) \/ IsStreamed(call[c]))
      BY <1>2, Shapes DEF FetchMatching, At, Rest, Idle
    <2>2. CASE End(c)
      <3>1. ~Stored(call[c])
        BY Zenon, <2>1, StreamFacts DEF Stored, Awaits
      <3> QED
        BY Zenon, <1>1, <2>1, <2>2, <3>1, HeldEnd
    <2>3. CASE ~End(c)
      <3>1. PICK C, E : call' = [call EXCEPT ![c].combinations = C, ![c].entries = E]
        BY Zenon, <1>2, <2>3 DEF FetchMatching
      <3>2. CASE IsBase(call[c])
        <4>1. /\ \A d \in Calls \ {c} : call'[d] = call[d]
              /\ DOMAIN call'[c] = BaseFields /\ call'[c].pc = call[c].pc
              /\ call'[c].token = call[c].token /\ call'[c].id = call[c].id
              /\ call'[c].serial = call[c].serial /\ call'[c].awaited = call[c].awaited
          BY Zenon, <1>0, <3>1, <3>2 DEF IsBase, BaseFields
        <4> QED
          BY Zenon, <1>1, <2>1, <3>2, <4>1, HeldMoves
      <3>3. CASE IsStreamed(call[c])
        <4>1. /\ \A d \in Calls \ {c} : call'[d] = call[d]
              /\ DOMAIN call'[c] = StreamFields /\ call'[c].pc = call[c].pc
              /\ call'[c].awaited = call[c].awaited /\ call'[c].id = call[c].id
              /\ call'[c].serial = call[c].serial /\ call'[c].csrs = call[c].csrs
              /\ call'[c].peer = call[c].peer
          BY Zenon, <1>0, <3>1, <3>3 DEF IsStreamed, StreamFields
        <4>2. Ordered(call'[c])
          BY Zenon, <3>3, <4>1, StreamFacts DEF Ordered, OwnCSR
        <4>3. call[c].pc # "update"
          BY Zenon, <2>1
        <4> QED
          BY Zenon, <1>1, <2>1, <3>3, <4>1, <4>2, <4>3, HeldFlows
      <3> QED
        BY Zenon, <2>1, <3>2, <3>3
    <2> QED
      BY Zenon, <2>2, <2>3
  <1>3. CASE FetchChildren(c)
    <2>1. call[c].pc = "matching" /\ adrift' = adrift /\ (IsBase(call[c]) \/ IsStreamed(call[c]))
      BY <1>3, Shapes DEF FetchChildren, At, Rest, Idle
    <2>2. PICK E : call' = [call EXCEPT ![c].pc = IF IsStream(c) THEN "csrs" ELSE "bundle", ![c].entries = E]
      BY Zenon, <1>3 DEF FetchChildren
    <2>3. CASE IsBase(call[c])
      <3>1. /\ \A d \in Calls \ {c} : call'[d] = call[d]
            /\ DOMAIN call'[c] = BaseFields
            /\ call'[c].token = call[c].token /\ call'[c].id = call[c].id
            /\ call'[c].serial = call[c].serial /\ call'[c].awaited = call[c].awaited
        BY Zenon, <1>0, <2>2, <2>3 DEF IsBase, BaseFields
      <3>2. call[c].pc \in MadeAt
        BY Zenon, <2>1 DEF MadeAt
      <3> QED
        BY Zenon, <1>1, <2>1, <2>3, <3>1, <3>2, HeldMoves
    <2>4. CASE IsStreamed(call[c])
      <3>1. /\ \A d \in Calls \ {c} : call'[d] = call[d]
            /\ DOMAIN call'[c] = StreamFields
            /\ call'[c].awaited = call[c].awaited /\ call'[c].id = call[c].id
            /\ call'[c].serial = call[c].serial /\ call'[c].csrs = call[c].csrs
            /\ call'[c].peer = call[c].peer
        BY Zenon, <1>0, <2>2, <2>4 DEF IsStreamed, StreamFields
      <3>2. call'[c].pc = "csrs"
        BY Zenon, <1>0, <2>2, <2>4, Shapes DEF IsStreamed, StreamFields
      <3>3. Ordered(call'[c])
        BY Zenon, <2>1, <2>4, <3>1, <3>2, StreamFacts DEF Ordered, OwnCSR
      <3>4. call[c].pc # "update" /\ call'[c].pc # "update"
        BY Zenon, <2>1, <3>2
      <3> QED
        BY Zenon, <1>1, <2>1, <2>4, <3>1, <3>3, <3>4, HeldFlows
    <2> QED
      BY Zenon, <2>1, <2>3, <2>4
  <1>4. CASE GetBundle(c)
    <2>1. Goto(c, "respond")
      BY Zenon, <1>4 DEF GetBundle, Published, FetchBundle, Return, Fail
    <2>2. call[c].pc = "bundle" /\ adrift' = adrift /\ (IsBase(call[c]) \/ IsStreamed(call[c]))
      BY <1>4, Shapes DEF GetBundle, At, Rest, Idle
    <2>3. CASE IsBase(call[c])
      BY Zenon, <1>1, <2>1, <2>2, <2>3, HeldGoto DEF MadeAt
    <2>4. CASE IsStreamed(call[c])
      <3>1. /\ \A d \in Calls \ {c} : call'[d] = call[d]
            /\ DOMAIN call'[c] = StreamFields /\ call'[c].pc = "respond"
            /\ call'[c].awaited = call[c].awaited /\ call'[c].id = call[c].id
            /\ call'[c].serial = call[c].serial /\ call'[c].csrs = call[c].csrs
            /\ call'[c].peer = call[c].peer
        BY Zenon, <1>0, <2>1, <2>4 DEF Goto, IsStreamed, StreamFields
      <3>2. Ordered(call'[c])
        <4>1. Ordered(call[c])
          BY Zenon, <2>4, StreamFacts
        <4>2. OwnCSR(call'[c]) <=> OwnCSR(call[c])
          BY Zenon, <3>1 DEF OwnCSR
        <4>3. call[c].csrs = {}
          BY Zenon, <2>2, <4>1 DEF Ordered
        <4>4. ~OwnCSR(call[c])
          BY Zenon, <4>3 DEF OwnCSR
        <4> QED
          BY Zenon, <3>1, <4>1, <4>2, <4>3, <4>4 DEF Ordered
      <3>3. call[c].pc # "update" /\ call'[c].pc # "update"
        BY Zenon, <2>2, <3>1
      <3> QED
        BY Zenon, <1>1, <2>2, <2>4, <3>1, <3>2, <3>3, HeldFlows
    <2> QED
      BY Zenon, <2>2, <2>3, <2>4
  <1>5. CASE Abort(c)
    <2>1. End(c) /\ adrift' = IF Renewed(c) THEN adrift \cup {call[c].id} ELSE adrift
      BY Zenon, <1>5 DEF Abort
    <2>2. Stored(call[c]) => Renewed(c)
      BY Zenon, Shapes DEF Stored, Awaits, Renewed
    <2> QED
      BY Zenon, <1>1, <2>1, <2>2, HeldEnd
  <1>6. CASE CARefuses(c)
    <2>1. End(c) /\ adrift' = adrift
      BY Zenon, <1>6 DEF CARefuses, Rest
    <2>2. ~Stored(call[c])
      <3>1. CASE At(c, "store")
        BY Zenon, <3>1, InBase, Kinds DEF At, Stored, Awaits
      <3>2. CASE At(c, "csrs") /\ call[c].csrs \cap Agents # {}
        BY Zenon, <3>2, StreamFacts DEF Stored, Awaits
      <3> QED
        BY Zenon, <1>6, <3>1, <3>2 DEF CARefuses
    <2> QED
      BY Zenon, <1>1, <2>1, <2>2, HeldEnd
  <1> QED
    BY Zenon, <1>2, <1>3, <1>4, <1>5, <1>6 DEF SharedStep

\* FetchSVID, from the connection to the request.
LEMMA HeldOpens ==
  ASSUME TokenInv, TokenInv', HeldInv, NEW c \in Calls, OpenStream(c) \/ CloseStream(c) \/ Recv(c)
  PROVE  HeldInv'
  <1>0. DOMAIN call = Calls
    BY Zenon DEF TokenInv, ShapeInv
  <1>1. Quiet /\ adrift' = adrift
    BY Zenon DEF OpenStream, CloseStream, Recv, Rest, Quiet
  <1>2. CASE OpenStream(c)
    <2>1. PICK i \in Ids : /\ i \in Agents => held[i] # 0
            /\ call' = [call EXCEPT ![c] =
                 [pc |-> "recv", id |-> i, peer |-> IF i \in Agents THEN held[i] ELSE 0,
                  csrs |-> {}, serial |-> 0, combinations |-> {}, entries |-> {},
                  svids |-> {}, awaited |-> FALSE, possible |-> {}]]
      BY Zenon, <1>2 DEF OpenStream
    <2>2. /\ \A d \in Calls \ {c} : call'[d] = call[d]
          /\ DOMAIN call'[c] = StreamFields /\ call'[c].pc = "recv" /\ call'[c].id = i
          /\ call'[c].peer = (IF i \in Agents THEN held[i] ELSE 0)
          /\ call'[c].csrs = {} /\ call'[c].serial = 0 /\ call'[c].awaited = FALSE
      BY Zenon, <1>0, <2>1 DEF StreamFields
    <2>3. IsStreamed(call'[c]) /\ ~IsBase(call'[c])
      BY Zenon, <2>2, PrimedShapes, Kinds
    <2>4. Ordered(call'[c])
      BY Zenon, <2>1, <2>2 DEF Ordered, OwnCSR
    <2>5. Fits(db.node, call, held, adrift, c, call'[c])
      BY Zenon, <2>2, <2>3, <2>4 DEF Fits, ByPlugin, Attests, Made, Awaits, Stored
    <2>6. ~Stored(call[c])
      BY Zenon, <1>2 DEF OpenStream, At, Stored, Awaits, IsStreamed
    <2> QED
      BY Zenon, <1>1, <2>2, <2>5, <2>6, HeldKeeps
  <1>3. CASE CloseStream(c)
    <2>1. IsStreamed(call[c]) /\ call[c].pc = "recv" /\ End(c)
      BY Zenon, <1>3, InStream DEF CloseStream, At
    <2> QED
      BY Zenon, <1>1, <2>1, StreamFacts, HeldEnd
  <1>4. CASE Recv(c)
    <2> DEFINE P == SpiffeIdsOf(LiveEntries(db))
    <2>1. PICK S \in (SUBSET Workloads) \cup {{call[c].id}} :
            /\ ~(S \subseteq Workloads) => held[call[c].id] = call[c].peer /\ ~Renewing(call[c].id)
            /\ call' = [call EXCEPT ![c].pc = "stored", ![c].csrs = S, ![c].entries = {},
                                 ![c].svids = {}, ![c].serial = 0,
                                 ![c].awaited = ~(S \subseteq Workloads), ![c].possible = P]
      BY ZenonT(60), <1>4 DEF Recv
    <2>2. IsStreamed(call[c]) /\ call[c].pc = "recv"
      BY ZenonT(60), <1>4, InStream DEF Recv, At
    <2> DEFINE w == ~(S \subseteq Workloads)
    <2>3. w \in BOOLEAN /\ (w <=> ~(S \subseteq Workloads))
      BY Zenon
    <2> HIDE DEF P, w
    <2>4. call' = [call EXCEPT ![c].pc = "stored", ![c].csrs = S, ![c].entries = {}, ![c].svids = {},
                               ![c].serial = 0, ![c].awaited = w, ![c].possible = P]
      BY ZenonT(60), <2>1 DEF w
    <2>5. /\ \A d \in Calls \ {c} : call'[d] = call[d]
          /\ DOMAIN call'[c] = StreamFields /\ call'[c].pc = "stored" /\ call'[c].csrs = S
          /\ call'[c].serial = 0 /\ call'[c].awaited = w
          /\ call'[c].id = call[c].id /\ call'[c].peer = call[c].peer
      <3>1. /\ call'[c] = [call[c] EXCEPT !.pc = "stored", !.csrs = S, !.entries = {}, !.svids = {},
                                        !.serial = 0, !.awaited = w, !.possible = P]
            /\ \A d \in Calls \ {c} : call'[d] = call[d]
        BY Zenon, <1>0, <2>4
      <3>2. DOMAIN call[c] = StreamFields
        BY Zenon, <2>2 DEF IsStreamed
      <3> QED
        BY Zenon, <3>1, <3>2 DEF StreamFields
    <2>6. IsStreamed(call'[c]) /\ ~IsBase(call'[c]) /\ call[c].id \in Ids
      BY Zenon, <2>2, <2>5, PrimedShapes, Kinds DEF IsStreamed
    <2>7. w => S = {call[c].id} /\ call[c].id \in Agents
      BY Zenon, <2>3, <2>6 DEF Workloads
    <2>8. Ordered(call'[c])
      BY Zenon, <2>2, <2>3, <2>5, <2>7, StreamFacts DEF Ordered, OwnCSR, Workloads
    <2>9. w => held[call[c].id] # 0 /\ \A d \in Calls : Awaits(call[d]) => call[d].id # call[c].id
      <3>1. \A d \in Calls : Awaits(call[d]) => IsStream(d) /\ Awaited(d)
        BY Zenon, Shapes DEF Awaits, Awaited, IsStreamed, At
      <3> QED
        BY Zenon, <2>1, <2>2, <2>3, <2>7, <3>1, StreamFacts DEF Ordered, Renewing
    <2>10. Fits(db.node, call, held, adrift, c, call'[c])
      BY Zenon, <2>5, <2>6, <2>8, <2>9 DEF Fits, ByPlugin, Attests, Made, Awaits, Stored
    <2> QED
      BY Zenon, <1>1, <2>2, <2>5, <2>10, StreamFacts, HeldKeeps
  <1> QED
    BY Zenon, <1>2, <1>3, <1>4

\* signCSRs, up to the update of the row.
LEMMA HeldSigns ==
  ASSUME TokenInv, TokenInv', HeldInv, NEW c \in Calls,
         GetStoredSelectors(c) \/ BuildSVID(c) \/ BuildBaseSVID(c) \/ SignCSRsDone(c)
  PROVE  HeldInv'
  <1>0. DOMAIN call = Calls /\ last \in Nat
    BY Zenon DEF TokenInv, ShapeInv
  <1>1. Quiet /\ adrift' = adrift
    BY Zenon DEF GetStoredSelectors, BuildSVID, BuildBaseSVID, SignCSRsDone, Rest, Quiet
  <1>2. IsStreamed(call[c]) /\ call[c].pc \in {"stored", "csrs"}
    BY Zenon, InStream DEF GetStoredSelectors, BuildSVID, BuildBaseSVID, SignCSRsDone, At
  <1>3. Ordered(call[c])
    BY Zenon, <1>2, StreamFacts
  <1> USE DEF StreamFields
  <1>4. CASE GetStoredSelectors(c)
    <2>1. PICK C : call' = [call EXCEPT ![c].pc = "matching", ![c].combinations = C]
      BY Zenon, <1>4 DEF GetStoredSelectors
    <2>2. call[c].pc = "stored"
      BY Zenon, <1>4 DEF GetStoredSelectors, At
    <2>3. /\ \A d \in Calls \ {c} : call'[d] = call[d]
          /\ DOMAIN call'[c] = StreamFields /\ call'[c].pc = "matching"
          /\ call'[c].awaited = call[c].awaited /\ call'[c].id = call[c].id
          /\ call'[c].serial = call[c].serial /\ call'[c].csrs = call[c].csrs
          /\ call'[c].peer = call[c].peer
      BY Zenon, <1>0, <1>2, <2>1 DEF IsStreamed
    <2>4. Ordered(call'[c])
      BY Zenon, <1>3, <2>2, <2>3 DEF Ordered, OwnCSR
    <2>5. call[c].pc # "update" /\ call'[c].pc # "update"
      BY Zenon, <2>2, <2>3
    <2> QED
      BY Zenon, <1>1, <1>2, <2>3, <2>4, <2>5, HeldFlows
  <1>5. CASE BuildSVID(c)
    <2>1. PICK i \in call[c].csrs \cap Workloads :
            End(c) \/ call' = [call EXCEPT ![c].csrs = @ \ {i}, ![c].svids = @ \cup {i}]
      BY Zenon, <1>5 DEF BuildSVID
    <2>2. ~call[c].awaited /\ ~Stored(call[c]) /\ call[c].pc = "csrs"
      BY Zenon, <1>2, <1>5, <2>1, StreamFacts DEF Stored, Awaits, BuildSVID, At
    <2>3. CASE End(c)
      BY Zenon, <1>1, <2>2, <2>3, HeldEnd
    <2>4. CASE ~End(c)
      <3>1. /\ \A d \in Calls \ {c} : call'[d] = call[d]
            /\ DOMAIN call'[c] = StreamFields /\ call'[c].pc = "csrs"
            /\ call'[c].awaited = call[c].awaited /\ call'[c].id = call[c].id
            /\ call'[c].serial = call[c].serial /\ call'[c].csrs = call[c].csrs \ {i}
            /\ call'[c].peer = call[c].peer
        BY <1>0, <1>2, <2>1, <2>2, <2>4 DEF IsStreamed
      <3>2. Ordered(call'[c])
        BY Zenon, <1>3, <2>2, <3>1 DEF Ordered, OwnCSR
      <3>3. call[c].pc # "update" /\ call'[c].pc # "update"
        BY Zenon, <2>2, <3>1
      <3> QED
        BY Zenon, <1>1, <1>2, <3>1, <3>2, <3>3, HeldFlows
    <2> QED
      BY Zenon, <2>3, <2>4
  <1>6. CASE BuildBaseSVID(c)
    <2>1. OwnCSR(call[c]) /\ ~Stored(call[c]) /\ call[c].pc = "csrs"
      BY Zenon, <1>2, <1>6, StreamFacts DEF BuildBaseSVID, At
    <2>2. CASE End(c)
      BY Zenon, <1>1, <2>1, <2>2, HeldEnd
    <2>3. CASE ~End(c)
      <3>1. call' = [call EXCEPT ![c].pc = "update", ![c].serial = last + 1]
        BY Zenon, <1>6, <2>3 DEF BuildBaseSVID
      <3>2. /\ \A d \in Calls \ {c} : call'[d] = call[d]
            /\ DOMAIN call'[c] = StreamFields /\ call'[c].pc = "update"
            /\ call'[c].awaited = call[c].awaited /\ call'[c].id = call[c].id
            /\ call'[c].serial = last + 1 /\ call'[c].csrs = call[c].csrs
            /\ call'[c].peer = call[c].peer
        BY Zenon, <1>0, <1>2, <3>1 DEF IsStreamed
      <3>3. last + 1 # 0
        BY <1>0
      <3>4. Ordered(call'[c])
        BY Zenon, <1>3, <2>1, <3>2, <3>3 DEF Ordered, OwnCSR
      <3>5. ~Stored(call'[c])
        BY Zenon, <3>2 DEF Stored
      <3> QED
        BY Zenon, <1>1, <1>2, <2>1, <3>2, <3>4, <3>5, HeldFlows
    <2> QED
      BY Zenon, <2>2, <2>3
  <1>7. CASE SignCSRsDone(c)
    <2>1. call[c].pc = "csrs" /\ call[c].csrs = {} /\ Goto(c, "bundle")
      BY Zenon, <1>7 DEF SignCSRsDone, At
    <2>2. /\ \A d \in Calls \ {c} : call'[d] = call[d]
          /\ DOMAIN call'[c] = StreamFields /\ call'[c].pc = "bundle"
          /\ call'[c].awaited = call[c].awaited /\ call'[c].id = call[c].id
          /\ call'[c].serial = call[c].serial /\ call'[c].csrs = call[c].csrs
          /\ call'[c].peer = call[c].peer
      BY Zenon, <1>0, <1>2, <2>1 DEF IsStreamed, Goto
    <2>3. Ordered(call'[c])
      BY Zenon, <1>3, <2>1, <2>2 DEF Ordered, OwnCSR
    <2>4. call[c].pc # "update" /\ call'[c].pc # "update"
      BY Zenon, <2>1, <2>2
    <2> QED
      BY Zenon, <1>1, <1>2, <2>2, <2>3, <2>4, HeldFlows
  <1> QED
    BY Zenon, <1>4, <1>5, <1>6, <1>7

\* The update fails, comes late, or writes the serial number the agent will hold.
LEMMA HeldUpdateAttestation ==
  ASSUME TokenInv, TokenInv', HeldInv, NEW c \in Calls, UpdateAttestation(c)
  PROVE  HeldInv'
  <1> DEFINE i == call[c].id
             s == call[c].serial
  <1>0. DOMAIN call = Calls /\ DOMAIN db = Tables
    BY Zenon DEF TokenInv, ShapeInv
  <1>1. IsStreamed(call[c]) /\ call[c].pc = "update" /\ i \in Ids
    BY Zenon, InStream DEF UpdateAttestation, At, IsStreamed
  <1>2. Ordered(call[c]) /\ ~Stored(call[c]) /\ OwnCSR(call[c]) /\ s # 0 /\ i \in Agents
    BY Zenon, <1>1, StreamFacts DEF Ordered, OwnCSR
  <1>3. held' = held /\ granted' = granted
    BY Zenon DEF UpdateAttestation
  <1>4. call' = [call EXCEPT ![c].pc = "csrs", ![c].csrs = @ \ {i}, ![c].svids = @ \cup {i}]
    BY Zenon DEF UpdateAttestation
  <1>5. /\ \A d \in Calls \ {c} : call'[d] = call[d]
        /\ DOMAIN call'[c] = StreamFields /\ call'[c].pc = "csrs"
        /\ call'[c].awaited = call[c].awaited /\ call'[c].id = i
        /\ call'[c].serial = s /\ call'[c].csrs = call[c].csrs \ {i}
        /\ call'[c].peer = call[c].peer
    BY Zenon, <1>0, <1>1, <1>4 DEF IsStreamed, StreamFields
  <1>6. IsStreamed(call'[c]) /\ ~IsBase(call'[c]) /\ Ordered(call'[c])
    <2>1. IsStreamed(call'[c]) /\ ~IsBase(call'[c])
      BY Zenon, <1>5, PrimedShapes, Kinds
    <2>2. Ordered(call'[c])
      BY Zenon, <1>2, <1>5 DEF Ordered, OwnCSR
    <2> QED
      BY Zenon, <2>1, <2>2
  <1>7. /\ \A d \in Calls : Fits(db.node, call, held, adrift, d, call[d])
        /\ HoldersGranted(held, granted) /\ Covered(db.node, call, held, adrift)
    BY Zenon DEF HeldInv, HeldOf
  <1>8. \/ adrift' = adrift \cup {i}
        \/ /\ call[c].awaited /\ adrift' = adrift \ {i}
           /\ db' = UpdateAttestedNodeEntry(db, i, s).db /\ ~UpdateAttestedNodeEntry(db, i, s).err
    BY Zenon DEF UpdateAttestation, Adrift
  <1>9. Fits(db.node, call, held, adrift, c, call[c])
    BY Zenon, <1>7
  <1>10. call[c].awaited => /\ held[i] # 0
                            /\ \A d \in Calls \ {c} : Awaits(call[d]) => call[d].id # i
    BY Zenon, <1>1, <1>9 DEF Fits, Awaits
  <1>11. CASE adrift' = adrift \cup {i}
    <2>0. i \in adrift' /\ adrift \subseteq adrift'
      BY Zenon, <1>11
    <2>1. \A j \in Ids \ {i} : db'.node[j] = db.node[j]
      <3>1. CASE db' = db
        BY Zenon, <3>1
      <3>2. CASE db' = [db EXCEPT !.node[i].serial = s]
        BY <1>0, <3>2 DEF Tables
      <3> QED
        BY Zenon, <3>1, <3>2 DEF UpdateAttestation, UpdateAttestedNodeEntry, Return, Fail
    <2>2. \A j \in Ids : \A x : Has(db.node, j, x) /\ j # i => Has(db'.node, j, x)
      BY Zenon, <2>1 DEF Has
    <2>3. \A d \in Calls : Made(call[d]) \/ Stored(call[d]) => call[d].id \in Ids
      BY Zenon, NodeAssumption DEF Made, Stored, Awaits, IsBase, IsStreamed
    <2>4. Fits(db'.node, call, held', adrift', c, call'[c])
      BY Zenon, <1>3, <1>5, <1>6, <1>10, <2>0 DEF Fits, ByPlugin, Attests, Made, Awaits, Stored
    <2>5. Unharmed(db'.node, call, held', adrift', c)
      BY Zenon, <1>3, <1>7, <2>0, <2>2, <2>3 DEF Fits, Unharmed
    <2>6. Covered(db'.node, call', held', adrift')
      <3>1. \A d \in Calls : Stored(call[d]) => Stored(call'[d]) /\ call'[d].id = call[d].id
        BY Zenon, <1>2, <1>5
      <3>2. Agents \subseteq Ids
        BY Zenon, NodeAssumption
      <3> SUFFICES ASSUME NEW j \in Agents
                   PROVE  \/ held[j] = 0 \/ j \in adrift' \/ Has(db'.node, j, held[j])
                          \/ \E d \in Calls : Stored(call'[d]) /\ call'[d].id = j
        BY Zenon, <1>3 DEF Covered
      <3>3. \/ held[j] = 0 \/ j \in adrift \/ Has(db.node, j, held[j])
            \/ \E d \in Calls : Stored(call[d]) /\ call[d].id = j
        BY Zenon, <1>7 DEF Covered
      <3> QED
        BY Zenon, <2>0, <2>2, <3>1, <3>2, <3>3
    <2> QED
      BY Zenon, <1>3, <1>5, <1>7, <2>4, <2>5, <2>6, HeldStep
  <1>12. CASE /\ call[c].awaited /\ adrift' = adrift \ {i}
              /\ db' = UpdateAttestedNodeEntry(db, i, s).db /\ ~UpdateAttestedNodeEntry(db, i, s).err
    <2>1. \A j : j # i /\ j \in adrift => j \in adrift'
      BY Zenon, <1>12
    <2>2. call[c].awaited
      BY Zenon, <1>12
    <2>3. \A d \in Calls : Stored(call[d]) => call[d].id # i
      BY Zenon, <1>2, <1>10, <2>2 DEF Stored
    <2>6. Wrote(i, s)
      BY Zenon, <1>1, <1>12, Writes
    <2>7. \A d \in Calls \ {c} : Made(call[d]) => call[d].id # i
      BY Zenon, <1>10, <2>2, HoldsNone
    <2>8. \A j \in Ids : \A x : Has(db.node, j, x) /\ j # i => Has(db'.node, j, x)
      BY Zenon, <2>6 DEF Has, Wrote
    <2>9. \A d \in Calls : Made(call[d]) \/ Stored(call[d]) => call[d].id \in Ids
      BY Zenon, NodeAssumption DEF Made, Stored, Awaits, IsBase, IsStreamed
    <2>10. Fits(db'.node, call, held', adrift', c, call'[c])
      BY Zenon, <1>3, <1>5, <1>6, <1>10, <2>6
         DEF Fits, ByPlugin, Attests, Made, Awaits, Stored, Wrote
    <2>11. Unharmed(db'.node, call, held', adrift', c)
      BY Zenon, <1>3, <1>7, <2>1, <2>3, <2>7, <2>8, <2>9 DEF Fits, Unharmed
    <2>12. Stored(call'[c])
      BY Zenon, <1>2, <1>5, <1>6, <2>2 DEF Stored, Awaits
    <2>13. Covered(db'.node, call', held', adrift')
      <3> SUFFICES ASSUME NEW j \in Agents
                   PROVE  \/ held'[j] = 0 \/ j \in adrift' \/ Has(db'.node, j, held'[j])
                          \/ \E d \in Calls : Stored(call'[d]) /\ call'[d].id = j
        BY Zenon DEF Covered
      <3>1. CASE j = i
        BY Zenon, <1>5, <2>12, <3>1
      <3>2. CASE j # i
        <4>1. \A d \in Calls : Stored(call[d]) => Stored(call'[d]) /\ call'[d].id = call[d].id
          BY Zenon, <1>2, <1>5
        <4>2. \/ held[j] = 0 \/ j \in adrift \/ Has(db.node, j, held[j])
              \/ \E d \in Calls : Stored(call[d]) /\ call[d].id = j
          BY Zenon, <1>7 DEF Covered
        <4>3. j \in Ids
          BY Zenon, NodeAssumption
        <4> QED
          BY Zenon, <1>3, <2>1, <2>8, <3>2, <4>1, <4>2, <4>3
      <3> QED
        BY Zenon, <3>1, <3>2
    <2> QED
      BY Zenon, <1>3, <1>5, <1>7, <2>10, <2>11, <2>13, HeldStep
  <1> QED
    BY Zenon, <1>8, <1>11, <1>12

LEMMA HeldSend ==
  ASSUME TokenInv, TokenInv', HeldInv, NEW c \in Calls, Send(c)
  PROVE  HeldInv'
  <1> DEFINE i == call[c].id
             s == call[c].serial
  <1>0. DOMAIN call = Calls
    BY Zenon DEF TokenInv, ShapeInv
  <1>1. IsStreamed(call[c]) /\ call[c].pc = "respond"
    BY Zenon, InStream DEF Send, At
  <1>2. Ordered(call[c]) /\ call[c].csrs = {} /\ call[c].awaited \in BOOLEAN
    BY Zenon, <1>1, StreamFacts DEF Ordered
  <1>3. call[c].awaited => i \in Agents /\ s # 0
    BY Zenon, <1>2 DEF Ordered, OwnCSR
  <1>4. db' = db /\ granted' = granted /\ adrift' = adrift
    BY Zenon DEF Send
  <1>5. call' = [call EXCEPT ![c].pc = "recv", ![c].awaited = FALSE]
    BY Zenon DEF Send
  <1>6. /\ \A d \in Calls \ {c} : call'[d] = call[d]
        /\ DOMAIN call'[c] = StreamFields /\ call'[c].pc = "recv"
        /\ call'[c].awaited = FALSE /\ call'[c].id = i
        /\ call'[c].serial = s /\ call'[c].csrs = call[c].csrs
        /\ call'[c].peer = call[c].peer
    BY Zenon, <1>0, <1>1, <1>5 DEF IsStreamed, StreamFields
  <1>7. IsStreamed(call'[c]) /\ ~IsBase(call'[c])
    BY Zenon, <1>6, PrimedShapes, Kinds
  <1>8. Ordered(call'[c])
    BY Zenon, <1>2, <1>6 DEF Ordered, OwnCSR
  <1>9. \A H : Fits(db.node, call, H, adrift, c, call'[c])
    BY Zenon, <1>6, <1>7, <1>8 DEF Fits, ByPlugin, Attests, Made, Awaits, Stored
  <1>10. /\ \A d \in Calls : Fits(db.node, call, held, adrift, d, call[d])
         /\ HoldersGranted(held, granted) /\ Covered(db.node, call, held, adrift)
    BY Zenon DEF HeldInv, HeldOf
  <1>11. CASE ~call[c].awaited
    <2>1. held' = held /\ ~Stored(call[c])
      BY Zenon, <1>11 DEF Send, Stored, Awaits
    <2> QED
      BY Zenon, <1>4, <1>6, <1>9, <2>1, HeldKeeps DEF Quiet
  <1>12. CASE call[c].awaited
    <2>1. held' = [held EXCEPT ![i] = s]
      BY Zenon, <1>12 DEF Send
    <2>2. Stored(call[c]) /\ Awaits(call[c])
      BY Zenon, <1>1, <1>3, <1>12 DEF Stored, Awaits
    <2>3. Fits(db.node, call, held, adrift, c, call[c])
      BY Zenon, <1>10
    <2>4. /\ i \in adrift \/ Has(db.node, i, s)
          /\ held[i] # 0 /\ \A d \in Calls \ {c} : Awaits(call[d]) => call[d].id # i
      BY Zenon, <2>2, <2>3 DEF Fits
    <2>5. held'[i] = s /\ DOMAIN held' = Agents /\ \A j \in Agents \ {i} : held'[j] = held[j]
      BY Zenon, <1>3, <1>10, <1>12, <2>1 DEF HoldersGranted
    <2>6. HoldersGranted(held', granted)
      BY Zenon, <1>10, <2>4, <2>5, NodeAssumption DEF HoldersGranted
    <2>7. \A d \in Calls : Attests(call[d]) => call[d].id \in Agents /\ call[d].id # i
      BY Zenon, <1>10, <2>4 DEF Fits, Attests, ByPlugin, IsBase
    <2>8. \A d \in Calls : Awaits(call[d]) => call[d].id \in Agents
      BY Zenon, <1>10 DEF Fits, Ordered, Awaits
    <2>9. Unharmed(db.node, call, held', adrift, c)
      BY Zenon, <1>10, <2>4, <2>5, <2>7, <2>8 DEF Fits, Unharmed
    <2>10. Covered(db.node, call', held', adrift)
      <3> SUFFICES ASSUME NEW j \in Agents
                   PROVE  \/ held'[j] = 0 \/ j \in adrift \/ Has(db.node, j, held'[j])
                          \/ \E d \in Calls : Stored(call'[d]) /\ call'[d].id = j
        BY Zenon DEF Covered
      <3>1. CASE j = i
        BY Zenon, <2>4, <2>5, <3>1
      <3>2. CASE j # i
        <4>1. \/ held[j] = 0 \/ j \in adrift \/ Has(db.node, j, held[j])
              \/ \E d \in Calls : Stored(call[d]) /\ call[d].id = j
          BY Zenon, <1>10 DEF Covered
        <4> QED
          BY Zenon, <1>6, <2>5, <3>2, <4>1
      <3> QED
        BY Zenon, <3>1, <3>2
    <2> QED
      BY Zenon, <1>4, <1>6, <1>9, <2>6, <2>9, <2>10, HeldStep
  <1> QED
    BY Zenon, <1>2, <1>11, <1>12

\* An agent stops: its calls go on, and nobody waits for them.
LEMMA HeldAgentRestart ==
  ASSUME TokenInv, TokenInv', HeldInv, NEW i \in Agents, AgentRestart(i)
  PROVE  HeldInv'
  <1>1. db' = db /\ granted' = granted /\ held' = [held EXCEPT ![i] = 0] /\ adrift' = adrift
    BY Zenon DEF AgentRestart
  <1>2. \A c \in Calls : call'[c] = IF ~At(c, "idle") /\ call[c].id = i
                                      THEN [call[c] EXCEPT !.awaited = FALSE] ELSE call[c]
    BY Zenon DEF AgentRestart
  <1>3. /\ \A d \in Calls : Fits(db.node, call, held, adrift, d, call[d])
        /\ HoldersGranted(held, granted) /\ Covered(db.node, call, held, adrift)
    BY Zenon DEF HeldInv, HeldOf
  <1>4. held'[i] = 0 /\ DOMAIN held' = Agents /\ \A j \in Agents \ {i} : held'[j] = held[j]
    BY Zenon, <1>1, <1>3 DEF HoldersGranted
  <1>5. HoldersGranted(held', granted)
    BY Zenon, <1>3, <1>4, NodeAssumption DEF HoldersGranted
  \* The calls of other agents are what they were.
  <1>6. ASSUME NEW c \in Calls, IsBase(call[c]) \/ IsStreamed(call[c]), call[c].id = i
        PROVE  call'[c] = [call[c] EXCEPT !.awaited = FALSE]
    BY Zenon, <1>2, <1>6 DEF At, IsBase, IsStreamed
  <1>7. \A c \in Calls : \/ call'[c] = call[c] /\ call[c] = Idle
                         \/ call'[c] = call[c] /\ call[c].id # i
                         \/ (IsBase(call[c]) \/ IsStreamed(call[c])) /\ call[c].id = i
    BY Zenon, <1>2, Shapes DEF At, Idle
  <1>8. ASSUME NEW c \in Calls, IsStreamed(call[c]), call[c].id = i
        PROVE  IsStreamed(call'[c]) /\ ~IsBase(call'[c]) /\ Ordered(call'[c]) /\ ~call'[c].awaited
    <2>1. call'[c] = [call[c] EXCEPT !.awaited = FALSE]
      BY Zenon, <1>6, <1>8
    <2>2. /\ DOMAIN call'[c] = StreamFields /\ call'[c].pc = call[c].pc
          /\ call'[c].awaited = FALSE /\ call'[c].id = i
          /\ call'[c].serial = call[c].serial /\ call'[c].csrs = call[c].csrs
          /\ call'[c].peer = call[c].peer
      BY Zenon, <1>8, <2>1 DEF IsStreamed, StreamFields
    <2>3. IsStreamed(call'[c]) /\ ~IsBase(call'[c])
      BY Zenon, <2>2, PrimedShapes, Kinds
    <2>4. Ordered(call[c])
      BY Zenon, <1>3, <1>8 DEF Fits
    <2>5. Ordered(call'[c])
      BY Zenon, <1>8, <2>2, <2>4 DEF Ordered, OwnCSR
    <2> QED
      BY Zenon, <2>2, <2>3, <2>5
  <1>9. ASSUME NEW c \in Calls, IsBase(call[c]), call[c].id = i
        PROVE  /\ IsBase(call'[c]) /\ ~IsStreamed(call'[c]) /\ ~call'[c].awaited
               /\ call'[c].id = i /\ call'[c].token = call[c].token
    <2>1. call'[c] = [call[c] EXCEPT !.awaited = FALSE]
      BY Zenon, <1>6, <1>9
    <2>2. /\ DOMAIN call'[c] = BaseFields /\ call'[c].awaited = FALSE
          /\ call'[c].id = i /\ call'[c].token = call[c].token
      BY Zenon, <1>9, <2>1 DEF IsBase, BaseFields
    <2> QED
      BY Zenon, <2>2, PrimedShapes, Kinds
  <1>10. ~IsBase(Idle) /\ ~IsStreamed(Idle)
    BY Zenon DEF IsBase, IsStreamed, Idle, BaseFields, StreamFields
  <1>11. \A c \in Calls : Attests(call'[c]) \/ Made(call'[c]) \/ Awaits(call'[c]) \/ Stored(call'[c])
                           => call'[c] = call[c] /\ call[c].id # i
    BY Zenon, <1>7, <1>8, <1>9, <1>10 DEF Attests, ByPlugin, Made, Awaits, Stored
  <1>12. ASSUME NEW c \in Calls
         PROVE  Fits(db.node, call', held', adrift, c, call'[c])
    <2>1. Fits(db.node, call, held, adrift, c, call[c])
      BY Zenon, <1>3
    <2>2. IsStreamed(call'[c]) => Ordered(call'[c])
      BY Zenon, <1>7, <1>8, <1>9, <2>1 DEF Fits
    <2>3. ByPlugin(call'[c]) => call'[c].id \in PluginAgents
      BY Zenon, <1>7, <1>8, <1>9, <2>1 DEF Fits, ByPlugin
    <2>4. Attests(call'[c]) => /\ held'[call'[c].id] = 0
                               /\ \A d \in Calls \ {c} : Attests(call'[d]) => call'[d].id # call'[c].id
      <3>1. Attests(call[c]) => call[c].id \in Agents
        BY Zenon DEF Attests, ByPlugin, IsBase
      <3> QED
        BY Zenon, <1>4, <1>11, <2>1, <3>1 DEF Fits
    <2>5. Awaits(call'[c]) => /\ held'[call'[c].id] # 0
                              /\ \A d \in Calls \ {c} : Awaits(call'[d]) => call'[d].id # call'[c].id
      <3>1. Awaits(call[c]) => call[c].id \in Agents
        BY Zenon, <2>1 DEF Fits, Ordered, Awaits
      <3> QED
        BY Zenon, <1>4, <1>11, <2>1, <3>1 DEF Fits
    <2>6. Made(call'[c]) \/ Stored(call'[c]) =>
            call'[c].id \in adrift \/ Has(db.node, call'[c].id, call'[c].serial)
      BY Zenon, <1>11, <2>1 DEF Fits
    <2> QED
      BY Zenon, <2>2, <2>3, <2>4, <2>5, <2>6 DEF Fits
  <1>13. Covered(db.node, call', held', adrift)
    <2> SUFFICES ASSUME NEW j \in Agents
                 PROVE  \/ held'[j] = 0 \/ j \in adrift \/ Has(db.node, j, held'[j])
                        \/ \E d \in Calls : Stored(call'[d]) /\ call'[d].id = j
      BY Zenon DEF Covered
    <2>1. CASE j = i
      BY Zenon, <1>4, <2>1
    <2>2. CASE j # i
      <3>1. \A d \in Calls : Stored(call[d]) /\ call[d].id = j => call'[d] = call[d]
        BY Zenon, <1>7, <2>2
      <3> QED
        BY <1>3, <1>4, <2>2, <3>1 DEF Covered
    <2> QED
      BY Zenon, <2>1, <2>2
  <1>14. HeldOf(db'.node, call', held', adrift', granted')
    BY Zenon, <1>1, <1>5, <1>12, <1>13 DEF HeldOf
  <1> QED
    BY Zenon, <1>14, HeldPrimed

\* What only the registration API and the clock change does not matter here.
LEMMA HeldOthers ==
  ASSUME TokenInv, TokenInv', HeldInv,
         \/ Tick
         \/ \E t \in Tokens : CreateJoinToken(t)
         \/ \E e \in EntryIds : CreateEntry(e) \/ DeleteEntry(e)
         \/ UNCHANGED vars
  PROVE  HeldInv'
  <1>0. DOMAIN db = Tables /\ DOMAIN call = Calls
    BY Zenon DEF TokenInv, ShapeInv
  <1> DEFINE Same == Quiet /\ adrift' = adrift
             Resembles(c) == \/ call'[c] = call[c]
                             \/ /\ DOMAIN call[c] = StreamFields
                                /\ DOMAIN call'[c] = StreamFields /\ call'[c].pc = call[c].pc
                                /\ call'[c].awaited = call[c].awaited /\ call'[c].id = call[c].id
                                /\ call'[c].serial = call[c].serial /\ call'[c].csrs = call[c].csrs
                                /\ call'[c].peer = call[c].peer
  <1>1. ASSUME Tick \/ UNCHANGED vars
        PROVE  Same /\ call' = call
    BY Zenon, <1>1 DEF Tick, vars, Quiet
  <1>2. ASSUME NEW t \in Tokens, CreateJoinToken(t)
        PROVE  Same /\ call' = call
    BY Zenon, <1>0, <1>2 DEF CreateJoinToken, RegisterToken, Return, Fail, Tables, Quiet
  <1>3. ASSUME NEW e \in EntryIds, DeleteEntry(e)
        PROVE  Same /\ call' = call
    BY Zenon, <1>0, <1>3 DEF DeleteEntry, DeleteRegistrationEntry, Return, Fail, Tables, Quiet
  <1>4. ASSUME NEW e \in EntryIds, CreateEntry(e)
        PROVE  Same /\ \A c \in Calls : Resembles(c)
    <2>1. PICK j, q : /\ db' = CreateRegistrationEntry(db, e, q).db
                      /\ call' = [c \in Calls |-> IF IsStream(c) /\ ~At(c, "recv")
                           THEN [call[c] EXCEPT !.possible = call[c].possible \cup {j}] ELSE call[c]]
      BY <1>4, Zenon DEF CreateEntry
    <2>2. Same
      BY Zenon, <1>0, <1>4, <2>1, OtherTables DEF CreateEntry, Quiet
    <2>3. ASSUME NEW c \in Calls
          PROVE  Resembles(c)
      <3>1. CASE IsStream(c)
        <4>1. DOMAIN call[c] = StreamFields
          BY Zenon, <3>1, Shapes DEF IsStreamed
        <4> QED
          BY Zenon, <2>1, <4>1 DEF StreamFields
      <3>2. CASE ~IsStream(c)
        BY Zenon, <2>1, <3>2
      <3> QED
        BY Zenon, <3>1, <3>2
    <2> QED
      BY Zenon, <2>2, <2>3
  <1>5. Same /\ \A c \in Calls : Resembles(c)
    BY Zenon, <1>1, <1>2, <1>3, <1>4
  <1>6. ASSUME NEW c \in Calls
        PROVE  /\ IsStreamed(call'[c]) <=> IsStreamed(call[c])
               /\ ByPlugin(call'[c]) <=> ByPlugin(call[c])
               /\ Attests(call'[c]) <=> Attests(call[c])
               /\ Made(call'[c]) <=> Made(call[c])
               /\ Awaits(call'[c]) <=> Awaits(call[c])
               /\ Stored(call'[c]) <=> Stored(call[c])
               /\ IsStreamed(call[c]) => (Ordered(call'[c]) <=> Ordered(call[c]))
               /\ call[c] # Idle => call'[c].id = call[c].id /\ call'[c].serial = call[c].serial
    <2>1. CASE call'[c] = call[c]
      BY Zenon, <2>1
    <2>2. CASE call'[c] # call[c]
      <3>1. /\ DOMAIN call[c] = StreamFields
            /\ DOMAIN call'[c] = StreamFields /\ call'[c].pc = call[c].pc
            /\ call'[c].awaited = call[c].awaited /\ call'[c].id = call[c].id
            /\ call'[c].serial = call[c].serial /\ call'[c].csrs = call[c].csrs
            /\ call'[c].peer = call[c].peer
        BY Zenon, <1>5, <2>2
      <3>2. IsStreamed(call'[c]) /\ ~IsBase(call'[c]) /\ IsStreamed(call[c]) /\ ~IsBase(call[c])
        <4>1. IsStreamed(call'[c]) /\ ~IsBase(call'[c])
          BY Zenon, <3>1, PrimedShapes, Kinds
        <4>2. IsStream(c)
          BY Zenon, <3>1 DEF IsStream, StreamFields
        <4> QED
          BY Zenon, <4>1, <4>2, Shapes
      <3> QED
        BY Zenon, <3>1, <3>2 DEF ByPlugin, Attests, Made, Awaits, Stored, Ordered, OwnCSR
    <2> QED
      BY Zenon, <2>1, <2>2
  <1>7. \A c \in Calls : IsStreamed(call[c]) \/ ByPlugin(call[c]) \/ Made(call[c]) => call[c] # Idle
    BY Kinds DEF ByPlugin, Made, IsBase, IsStreamed, Idle, BaseFields, StreamFields
  <1>8. ASSUME NEW c \in Calls
        PROVE  Fits(db.node, call', held, adrift, c, call'[c])
    <2>1. Fits(db.node, call, held, adrift, c, call[c])
      BY Zenon DEF HeldInv, HeldOf
    <2> QED
      BY Zenon, <1>6, <1>7, <2>1 DEF Fits, Attests, Awaits, Stored
  <1>9. Covered(db.node, call', held, adrift)
    <2>1. \A c \in Calls : Stored(call[c]) => call'[c].id = call[c].id
      BY Zenon, <1>6, <1>7 DEF Stored, Awaits
    <2> QED
      BY <1>6, <2>1 DEF HeldInv, HeldOf, Covered
  <1>10. HeldOf(db'.node, call', held', adrift', granted')
    BY Zenon, <1>5, <1>8, <1>9 DEF HeldInv, HeldOf, Quiet
  <1> QED
    BY Zenon, <1>10, HeldPrimed

LEMMA HeldInvariant == Spec => [](TokenInv /\ Published /\ HeldInv)
  <1>1. TokenInv /\ TokenInv' /\ Published /\ HeldInv /\ [Next]_vars => Published' /\ HeldInv'
    <2> SUFFICES ASSUME TokenInv, TokenInv', Published, HeldInv, [Next]_vars
                 PROVE  Published' /\ HeldInv'
      BY Zenon
    <2>1. ASSUME NEW c \in Calls, BaseStep(c)
          PROVE  HeldInv'
      BY Zenon, <2>1, HeldFetchBaseSVID, HeldBaseSteps, HeldStoreAttestation, HeldRespond DEF BaseStep
    <2>2. ASSUME NEW c \in Calls, StreamStep(c)
          PROVE  HeldInv'
      BY Zenon, <2>2, HeldOpens, HeldSigns, HeldUpdateAttestation, HeldSend DEF StreamStep
    <2>3. HeldInv'
      BY Zenon, <2>1, <2>2, HeldShared, HeldAgentRestart, HeldOthers DEF Next
    <2> QED
      BY Zenon, <2>3, PublishedNext
  <1> QED
    BY <1>1, TokenInvariant, PublishedInit, HeldInit, PTL DEF Spec

\* An agent can renew its SVID: the serial number in its row, which FetchSVID compares with the
\* agent's certificate, is the one of the SVID it holds, whatever calls of this and other agents
\* overlap.  The exceptions end with the next attestation or renewal the agent waits for: an update
\* that failed unnoticed, a renewal whose response was lost after it, and a call from before the
\* agent stopped that stores late.
THEOREM HeldSerialsAreStored == Spec => []HeldSerialIsStored
  <1>1. TokenInv /\ HeldInv => HeldSerialIsStored
    <2> SUFFICES ASSUME TokenInv, HeldInv, NEW i \in Agents, held[i] # 0, i \notin adrift, ~Renewing(i)
                 PROVE  held[i] \in FetchAttestedNodeEntry(db, i)
      BY Zenon DEF HeldSerialIsStored
    <2>1. \A c \in Calls : Stored(call[c]) => call[c].id # i
      BY Zenon, Shapes DEF Stored, Awaits, Renewing, Awaited, At, IsStreamed
    <2>2. Has(db.node, i, held[i])
      BY Zenon, <2>1 DEF HeldInv, HeldOf, Covered
    <2> QED
      BY Zenon, <2>2 DEF Has, FetchAttestedNodeEntry
  <1> QED
    BY <1>1, HeldInvariant, PTL
====
