------------------------------- MODULE Catalog -------------------------------
(***************************************************************************)
(* The plugin catalogs: pkg/common/catalog, and the catalogs of the agent  *)
(* and of the server on top of it, which sort the plugins by their kind.   *)
(*                                                                         *)
(* A plugin is a record [kind, enabled, builtin, fault]: fault is the step *)
(* of Run at which the plugin fails, or "none".  Run and Stop hold the     *)
(* catalog's lock, so that each is one step for everybody else.            *)
(***************************************************************************)
EXTENDS Naturals, FiniteSets

Faults == {"none", "parse", "start", "configure", "kind"}

\* up: the plugin processes that run; lists: how many plugins the catalog has of each kind.
\* started tells whether c.plugins is nil.
NewCatalog(Kinds) == [started |-> FALSE, up |-> {}, lists |-> [k \in Kinds |-> 0]]

Enabled(config)  == {p \in config : p.enabled}
Failing(config, fault) == {p \in config : p.fault = fault}

\* loadConfigs and parsePluginConfig: every plugin's configuration has to be readable, also
\* that of a plugin that is not enabled.
Parsed(config) == Failing(config, "parse") = {}

\* startPlugins: the enabled plugins that are not builtin become processes.
Processes(config) == {p \in Enabled(config) : ~p.builtin}

\* newPluginConfig, secureConfig and goplugin: the plugins whose process does not come up.
NotStarted(config) == Failing(Processes(config), "start")

\* configurePlugins: all enabled plugins have to accept their configuration.
Configured(config) == Failing(Enabled(config), "configure") = {}

\* categorize: how many plugins of each kind are enabled.
Categorized(config, Kinds) == [k \in Kinds |-> Cardinality({p \in Enabled(config) : p.kind = k})]

\* categorize accepts the plugins: each is of its kind, and there is one of every kind.
Complete(config, Kinds) ==
  /\ Failing(Enabled(config), "kind") = {}
  /\ \A k \in Kinds : Categorized(config, Kinds)[k] > 0

\* What Run can leave behind, with its result.  The plugins are tried in the order of a map:
\* when one fails to start, any of the others may be running.
RunResults(c, config, Kinds) ==
  CASE c.started -> {[catalog |-> c, ok |-> FALSE]}
    [] ~c.started /\ ~Parsed(config) ->
         {[catalog |-> [c EXCEPT !.started = TRUE], ok |-> FALSE]}
    [] ~c.started /\ Parsed(config) /\ NotStarted(config) # {} ->
         {[catalog |-> [c EXCEPT !.started = TRUE, !.up = u], ok |-> FALSE] :
            u \in SUBSET (Processes(config) \ NotStarted(config))}
    [] OTHER ->
         {[catalog |-> [started |-> TRUE, up |-> Processes(config),
                        lists |-> IF Configured(config) THEN Categorized(config, Kinds) ELSE c.lists],
           ok |-> Configured(config) /\ Complete(config, Kinds)]}

\* Stop: CleanupClients ends all processes, and the lists are reset.
Stopped(c) == [c EXCEPT !.up = {}, !.lists = [k \in DOMAIN @ |-> 0]]

\* DataStores()[0] and its like do not panic.
HasPlugin(c, kind) == c.lists[kind] > 0
====
