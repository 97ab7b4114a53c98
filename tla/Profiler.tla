------------------------------ MODULE Profiler ------------------------------
(***************************************************************************)
(* pkg/common/profiling: one goroutine that dumps profiles at every tick.  *)
(*                                                                         *)
(* The profiles "cpu" and "trace" are collected all the time, into a       *)
(* temporary file each, which every dump renames and replaces; the others  *)
(* are written when they are dumped.                                       *)
(***************************************************************************)
EXTENDS FiniteSets

Dumpers   == {"goroutine", "threadcreate", "heap", "block", "mutex", "trace", "cpu"}
Collected == {"trace", "cpu"}

\* dumpers: p.dumpers; temp: the profiles with a temporary file.
Profilers == [state: {"off", "starts", "runs", "ended"}, killed: BOOLEAN,
              dumpers: SUBSET Dumpers, temp: SUBSET Collected]
NoProfiler == [state |-> "off", killed |-> FALSE, dumpers |-> {}, temp |-> {}]

\* Start: getDumpers drops the names it does not know.
Started(names) ==
  [state |-> "starts", killed |-> FALSE, dumpers |-> names \cap Dumpers, temp |-> {}]

\* Prepare of the dumpers in fail fails; that of a collected profile may fail with its file
\* already made.
Prepares(p) ==
  {[temp |-> ((p.dumpers \ fail) \cap Collected) \cup made, ok |-> p.dumpers \ fail] :
     fail \in SUBSET p.dumpers, made \in SUBSET (p.dumpers \cap Collected)}

\* run: what cannot be prepared is left out; with nothing left the profiler ends.
Prepared(p) ==
  {[p EXCEPT !.state = IF r.ok = {} THEN "ended" ELSE "runs", !.dumpers = r.ok, !.temp = r.temp] :
     r \in Prepares(p)}

\* dumpProfiles: the temporary files are renamed, and made anew unless that fails.
Dumped(p) == {[p EXCEPT !.temp = t] : t \in SUBSET (p.dumpers \cap Collected)}

\* releaseDumpers removes the temporary files of the dumpers.
Released(p) == [p EXCEPT !.state = "ended", !.temp = @ \ p.dumpers]
====
