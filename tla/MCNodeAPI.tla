------------------------------- MODULE MCNodeAPI -------------------------------
(***************************************************************************)
(* Values of NodeAPI's constants: an agent with a join token, an agent     *)
(* that is attested by a plugin and whose node has a selector, and one     *)
(* whose node has none, which can therefore attest again.                  *)
(***************************************************************************)
EXTENDS NodeAPI, TLC

CONSTANTS t1, a1, a2, a3, s1

MCAgentOf == [t \in Tokens |-> a1]
MCResolved == [i \in Agents |-> IF i = a2 THEN {s1} ELSE {}]
MCSymmetry == Permutations(Calls)

\* Time matters to join tokens only.  The agents' rows do not meet, so that a behaviour is one
\* of a1, of a2 with the registration entries, or of a3; and one with entries or calls for a
\* workload is kept to one failure and two signed SVIDs of agents.
HasToken == \E t \in Tokens : db.token[t].row # "none"
HasEntry == \E e \in EntryIds : db.entry[e].row # "none"
HasWorkload ==
  \E c \in Calls : IsStream(c) /\ (call[c].id \in Workloads \/ call[c].csrs \cap Workloads # {})
Has(i) ==
  db.node[i].row # "none" \/ \E c \in Calls : ~At(c, "idle") /\ ~IsStream(c) /\ call[c].id = i

MCBound ==
  /\ now > 0 => HasToken
  /\ HasToken => ~Has(a2)
  /\ HasEntry \/ HasWorkload => ~HasToken /\ failures <= 1 /\ last <= 2
  /\ Has(a3) => ~(HasToken \/ HasEntry \/ HasWorkload \/ Has(a1) \/ Has(a2))
================================================================================
