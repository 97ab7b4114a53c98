------------------------------ MODULE MCAgentSync ------------------------------
(***************************************************************************)
(* Instances of AgentSync.  In the first an alias of the agent has a child *)
(* that is an alias too, and that has a child of its own; in the second    *)
(* two entries of the agent differ in their selectors only.                *)
(***************************************************************************)
EXTENDS AgentSync

MCEntries  == {"alias", "child", "grandchild"}
MCIds      == {"a", "c", "g"}
MCIdOf     == [e \in MCEntries |-> CASE e = "alias" -> "a" [] e = "child" -> "c" [] OTHER -> "g"]
MCParentOf == [e \in MCEntries |->
                 CASE e = "alias" -> "server" [] e = "child" -> "a" [] OTHER -> "c"]
MCResolved == {"alias"}
MCAliases  == {"alias", "child"}
MCRegistered0 == {{"child", "grandchild"}}

TwinEntries     == {"one", "other"}
TwinIds         == {"w"}
TwinIdOf        == [e \in TwinEntries |-> "w"]
TwinParentOf    == [e \in TwinEntries |-> "agent"]
TwinRegistered0 == {{}}
===============================================================================
