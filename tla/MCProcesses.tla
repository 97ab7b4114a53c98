---------------------------- MODULE MCProcesses ----------------------------
(* The agent and the server, each with plugins of two kinds.               *)
EXTENDS Processes

Plugin(kind, builtin, fault) ==
  [kind |-> kind, enabled |-> TRUE, builtin |-> builtin, fault |-> fault]
Disabled(kind) == [Plugin(kind, TRUE, "none") EXCEPT !.enabled = FALSE]

MCAgentKinds  == {"KeyManager", "NodeAttestor"}
MCServerKinds == {"ControlPlaneCA", "DataStore"}

\* Two plugins that work, one of them a process; and configurations that stop Run at each of
\* its steps.
ConfigsOf(k1, k2) ==
  { {Plugin(k1, TRUE, "none"), Plugin(k2, FALSE, "none")},
    {Plugin(k1, TRUE, "none"), Disabled(k2)},
    {Plugin(k1, FALSE, "none"), Plugin(k2, FALSE, "start")},
    {Plugin(k1, FALSE, "none"), Plugin(k2, TRUE, "configure")},
    {Plugin(k1, FALSE, "parse"), Plugin(k2, TRUE, "none")},
    {Plugin(k1, TRUE, "none"), Plugin(k2, TRUE, "kind")} }

MCAgentConfigs  == ConfigsOf("KeyManager", "NodeAttestor")
MCServerConfigs == ConfigsOf("ControlPlaneCA", "DataStore")

\* A source in which all options have the value v, and the log the given ones.
All(options, v, log) ==
  <<[o \in {options[i] : i \in DOMAIN options} \ {"log"} |-> v], log>>
With(source, o, v) == [source EXCEPT ![1][o] = v]

\* Nothing; everything; everything but one option that is bad; one option only; the log's file
\* or level only, or one of them bad; and a switch that is false.
SourcesOf(options, v) ==
  LET none == All(options, Unset, [file |-> Unset, level |-> Unset])
      all  == All(options, v, [file |-> v, level |-> v])
      off  == {o \in DOMAIN none[1] : o = "upstream"}
  IN {none, all, With(all, "address", Bad), With(all, "umask", Bad), With(none, "domain", v),
      All(options, Unset, [file |-> v, level |-> Unset]),
      All(options, Unset, [file |-> Unset, level |-> v]),
      All(options, Unset, [file |-> Bad, level |-> v]),
      All(options, Unset, [file |-> v, level |-> Bad])}
     \cup {With(none, o, False) : o \in off}

SettingsOf(options) ==
  [file: SourcesOf(options, "file"),
   flags: {With(s, "profiling", Unset) : s \in SourcesOf(options, "flag")}]
MCAgentSettings  == SettingsOf(AgentOptions)
MCServerSettings == SettingsOf(ServerOptions)
MCProfiles == {"cpu", "unknown"}
====
