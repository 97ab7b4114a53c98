---------------------------- MODULE Configuration ----------------------------
(***************************************************************************)
(* The configuration of the run commands: the defaults, the file and the   *)
(* flags (cmd/spire-agent/cli/run, cmd/spire-server/cli/run).              *)
(*                                                                         *)
(* The options are taken over in a fixed order, each unless it is unset;   *)
(* the first that cannot be used ends the merge with an error, and leaves  *)
(* what was taken over before it.                                          *)
(***************************************************************************)
EXTENDS Naturals, Sequences

\* mergeConfig's order.  There are no flags for profiling.
AgentOptions ==
  <<"address", "port", "domain", "bundle", "token", "socket", "dataDir", "log", "umask", "profiling">>
ServerOptions == <<"address", "port", "httpPort", "domain", "log", "umask", "upstream", "profiling">>

\* A source gives every option a value, Unset or Bad (an address that does not resolve, a file
\* that cannot be opened or parsed, a level of the log or a umask that is none).  The log has a
\* file and a level.  upstream is a switch, which can be given as false.
Unset == "unset"
Bad   == "bad"
False == "false"
Values(o) == {Unset, "file", "flag"} \cup IF o = "upstream" THEN {False} ELSE {Bad}
Sources(options) ==
  {f \in [{options[i] : i \in DOMAIN options} \ {"log"} -> Values("upstream") \cup {Bad}] :
     \A o \in DOMAIN f : f[o] \in Values(o)}
  \X [file: Values("log"), level: Values("log")]

\* What mergeConfig finds: a switch that is false is not told from one that is not given, and
\* NewLogger fails for a file or a level that is bad.
Given(source, o) ==
  CASE o = "log" /\ Bad \in {source[2].file, source[2].level} -> Bad
    [] o = "log" /\ {source[2].file, source[2].level} = {Unset} -> Unset
    [] o # "log" /\ source[1][o] \in {Unset, False} -> Unset
    [] o # "log" /\ source[1][o] \notin {Unset, False} -> source[1][o]
    [] OTHER -> "log"

\* newDefaultConfig.  "default" also stands for what has no default, and is nil or false.
DefaultLog == [file |-> "default", level |-> "default"]
Defaults(options) ==
  [o \in {options[i] : i \in DOMAIN options} |-> IF o = "log" THEN DefaultLog ELSE "default"]

\* A new logger, to the file (or the standard output) and with the level (or INFO).
Log(source) == [p \in {"file", "level"} |->
                  IF source[2][p] = Unset THEN "default" ELSE source[2][p]]

\* mergeConfig: the options before the first one that is bad.
MergeConfig(orig, source, options) ==
  LET good(i)  == \A j \in 1..i : Given(source, options[j]) # Bad
      taken    == {options[i] : i \in {j \in DOMAIN options : good(j)}}
      value(o) == CASE o \notin taken \/ Given(source, o) = Unset -> orig.config[o]
                    [] o \in taken /\ Given(source, o) # Unset /\ o = "log" -> Log(source)
                    [] OTHER -> source[1][o]
  IN [config |-> [o \in DOMAIN orig.config |-> value(o)], ok |-> good(Len(options))]

\* mergeConfigs: "CLI > File, merge fileConfig first".
MergeConfigs(file, flags, options) ==
  LET first == MergeConfig([config |-> Defaults(options)], file, options)
  IN IF first.ok THEN MergeConfig(first, flags, options) ELSE first

\* Is the value v of a source that of the configuration.
Is(v, set) == set = IF v = False THEN "default" ELSE v

\* Each option that the flags give has the value they give it.  (Flags that cannot be used say
\* nothing.)
Obeys(set, flags) ==
  \/ \E o \in DOMAIN flags[1] : flags[1][o] = Bad
  \/ \E p \in DOMAIN flags[2] : flags[2][p] = Bad
  \/ /\ \A o \in DOMAIN flags[1] : flags[1][o] # Unset => Is(flags[1][o], set[o])
     /\ \A p \in DOMAIN flags[2] : flags[2][p] # Unset => Is(flags[2][p], set["log"][p])
====
