---------------------------- MODULE LatestUpdate ----------------------------
(***************************************************************************)
(* What the X509-SVID client promises the workload that reads its update   *)
(* channel, without how the client does it.                                *)
(*                                                                         *)
(* The client learns one response after another; it may deliver a response *)
(* late, skip it, or deliver it again, but it never goes back to an older  *)
(* one, and it does not stop before the one it learned last.               *)
(***************************************************************************)
EXTENDS Naturals, Sequences

CONSTANT Values           \* the responses of the Workload API

VARIABLES
  learned,    \* the responses the client learned, in order
  delivered,  \* which of them the workload got last; 0: none yet
  reading     \* does the workload still read its updates

updates == <<learned, delivered, reading>>

Init == learned = <<>> /\ delivered = 0 /\ reading = TRUE

\* A response that differs from the one learned before.
Learn ==
  /\ \E v \in Values :
       /\ learned # <<>> => learned[Len(learned)] # v
       /\ learned' = Append(learned, v)
  /\ UNCHANGED <<delivered, reading>>

\* The workload gets a response no older than the last one it got.
Deliver ==
  /\ reading
  /\ delivered' \in delivered..Len(learned)
  /\ delivered' > 0
  /\ UNCHANGED <<learned, reading>>

\* The workload gets a newer response.
Progress == Deliver /\ delivered' > delivered

\* The workload is done.
Close ==
  /\ reading' = FALSE
  /\ UNCHANGED <<learned, delivered>>

Next == Learn \/ Deliver \/ Close

Safety == Init /\ [][Next]_updates

\* A workload that keeps reading gets a newer response, if there is one, in the end.
Spec == Safety /\ WF_updates(Progress)
====
