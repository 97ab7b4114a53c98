------------------------------ MODULE FetchCLI ------------------------------
(***************************************************************************)
(* "spire-agent api fetch -write <path>" (cmd/spire-agent/cli/api/         *)
(* fetch_cli.go): a workload's SVIDs, keys and bundles, fetched once and   *)
(* written to three files for each SVID.  Several of these commands write  *)
(* to the same path, one after another or together.                        *)
(***************************************************************************)
EXTENDS Naturals

CONSTANTS
  Fetches,      \* the commands
  Versions,     \* the agent's responses differ by their version
  MaxSVIDs      \* bound: the SVIDs of a response

VARIABLES
  files,        \* files[i][k]: the version of what the k-th file of the i-th SVID holds
  fetches       \* the state of each command

fvars == <<files, fetches>>

Absent == "absent"
Old    == "old"       \* what an earlier command wrote
Torn   == "torn"      \* a write that failed half-way

\* svid.i.pem, svid.i.key and bundle.i.pem are files[i][1], files[i][2] and files[i][3].
Indices == 0 .. MaxSVIDs - 1

\* The agent refuses a workload that has no SVID.
Responses  == [version: Versions, svids: 1 .. MaxSVIDs]
NoResponse == [version |-> "none", svids |-> 0]

Idle == [at |-> "idle", resp |-> NoResponse, next |-> 0, code |-> 0, alone |-> TRUE]

FetchInit ==
  /\ \E n \in 0 .. MaxSVIDs :
       files = [i \in Indices |-> [k \in 1 .. 3 |-> IF i < n THEN Old ELSE Absent]]
  /\ fetches = [f \in Fetches |-> Idle]

\* FetchCLI.Run: dial does not wait for the agent; the request has a timeout.
RunFetch(f) ==
  /\ fetches[f].at = "idle"
  /\ fetches' = [fetches EXCEPT ![f].at = "asks"]
  /\ UNCHANGED files

\* The first response of the stream arrives; without -write the command ends.  The writes of
\* commands that overlap are mixed.
Fetch(f) ==
  LET others == {g \in Fetches \ {f} : fetches[g].at = "writes"}
  IN \E r \in Responses, write \in BOOLEAN :
       /\ fetches[f].at = "asks"
       /\ fetches' = [g \in Fetches |->
            CASE g = f ->
                   [fetches[f] EXCEPT !.at = IF write THEN "writes" ELSE "ended",
                                      !.resp = IF write THEN r ELSE NoResponse,
                                      !.alone = ~write \/ others = {}]
              [] g \in others -> [fetches[g] EXCEPT !.alone = @ /\ ~write]
              [] OTHER -> fetches[g]]
       /\ UNCHANGED files

\* The agent cannot be reached, has no identity for the workload, or says nothing in time.
FetchFails(f) ==
  /\ fetches[f].at = "asks"
  /\ fetches' = [fetches EXCEPT ![f].at = "ended", ![f].code = 1]
  /\ UNCHANGED files

\* writeResponse: one file after the other, each of them truncated first.
WriteFile(f) ==
  LET n == fetches[f].next
  IN /\ fetches[f].at = "writes" /\ n < 3 * fetches[f].resp.svids
     /\ \/ /\ files' = [files EXCEPT ![n \div 3][(n % 3) + 1] = fetches[f].resp.version]
           /\ fetches' = [fetches EXCEPT ![f].next = n + 1]
        \/ /\ \/ files' = [files EXCEPT ![n \div 3][(n % 3) + 1] = Torn]
              \/ UNCHANGED files
           /\ fetches' = [fetches EXCEPT ![f].at = "ended", ![f].code = 1]

\* Mutation: the bundle of the last SVID is left as it is.
EndEarly(f) ==
  /\ fetches[f].at = "writes"
  /\ fetches[f].next + 1 >= 3 * fetches[f].resp.svids
  /\ fetches' = [fetches EXCEPT ![f].at = "ended"]
  /\ UNCHANGED files

\* writeResponse: all files are written.
WriteEnds(f) ==
  /\ fetches[f].at = "writes"
  /\ fetches[f].next = 3 * fetches[f].resp.svids
  /\ fetches' = [fetches EXCEPT ![f].at = "ended"]
  /\ UNCHANGED files

FetchNext == \E f \in Fetches : RunFetch(f) \/ Fetch(f) \/ FetchFails(f) \/ WriteFile(f) \/ WriteEnds(f)

-----------------------------------------------------------------------------
\* The files hold whole responses or parts of one; a command is where Run can be.
FetchTypeOK ==
  /\ files \in [Indices -> [1 .. 3 -> Versions \cup {Absent, Old, Torn}]]
  /\ fetches \in [Fetches -> [at: {"idle", "asks", "writes", "ended"},
                              resp: Responses \cup {NoResponse}, next: 0 .. 3 * MaxSVIDs,
                              code: {0, 1}, alone: BOOLEAN]]

\* The certificate, key and bundle that the path holds under one number are of one response,
\* whatever was there before, unless commands overlapped or a write failed (fetch_cli.go:105-128).
FetchedFilesMatch ==
  (\A f \in Fetches : /\ fetches[f].at # "writes" /\ fetches[f].alone
                      /\ fetches[f].code = 0 \/ fetches[f].resp = NoResponse)
    => \A i \in Indices, k \in 1 .. 3 : files[i][k] = files[i][1]

====
