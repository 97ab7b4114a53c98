---------------------------- MODULE MCAgentCache ----------------------------
(* An instance of AgentCache: entries with one selector, and streams whose  *)
(* workloads have any set of selectors.                                     *)
EXTENDS AgentCache

CONSTANT a

MCEntrySel == [e \in Entries |-> {a}]
=============================================================================
