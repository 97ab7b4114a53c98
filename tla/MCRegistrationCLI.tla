---------------------------- MODULE MCRegistrationCLI ----------------------------
(* Three commands, two entries, one token; or any calls of the data store.   *)
EXTENDS RegistrationCLI, TLC

CONSTANTS i1, i2, s1, s2, t1

Req(i, p, sel) == [spiffe |-> i, parent |-> p, selectors |-> sel]

\* Two good entries ; one twice; one with a foreign SPIFFE ID, and one without
\* selectors, after a good one; and a file that is no JSON.
MCFiles ==
  LET a == Req(i1, i1, <<s1>>)
      b == Req(i1, i2, <<s1, s2>>)
  IN {<<a, b>>, <<a, a>>, <<b, Req(i2, i1, <<s1>>)>>, <<a, Req(i1, i2, <<>>)>>, Malformed}

Q(p, i, sel) == [entry |-> None, parent |-> p, spiffe |-> i, selectors |-> sel]

MCQueries ==
  {NoQuery, Q(i2, None, <<>>), Q(i2, i1, <<>>), Q(None, i1, <<s2>>), Q(i2, i1, <<s1, s2>>),
   Q(None, None, <<s1>>), Q(None, None, <<s2, s1>>), Q(None, i1, <<BadFlag>>)}
    \cup [entry: EntryIds, parent: {i2}, spiffe: {None}, selectors: {<<>>}]

MCAgentId == [t \in Tokens |-> i2]
MCAgentSelector == [t \in Tokens |-> s2]

Symmetric == Permutations(Calls) \cup Permutations(EntryIds)

VARIABLE part   \* what calls the data store: the commands, or anything

MCInit ==
  \/ part = "commands" /\ Init
  \/ part = "store" /\ StoreInit /\ call = [c \in Calls |-> Idle] /\ cmd = [c \in Calls |-> NoCommand]

MCNext ==
  /\ UNCHANGED part
  /\ \/ part = "commands" /\ Next
     \/ part = "store" /\ StoreNext /\ UNCHANGED <<call, cmd>>

MCSpec == MCInit /\ [][MCNext]_<<vars, part>>

\* Bound: one of the tables is used.  No call of the data store reads or writes two, but for the
\* entries and their selectors.
MCOneTable ==
  part = "store" =>
    \E f \in {"token", "node", "resolver", "entry", "bundle"} :
      \A g \in {"token", "node", "resolver", "entry", "bundle"} \ {f} : db[g] = EmptyDB[g]
====
