-------------------------------- MODULE Tomb --------------------------------
(***************************************************************************)
(* gopkg.in/tomb.v2, as the processes and their parts use it: a set of     *)
(* goroutines that die together.                                           *)
(***************************************************************************)
Reasons == {"alive", "nil", "error"}

\* live: the goroutines that have not returned.
Tombs(Goroutines) == [reason: Reasons, live: SUBSET Goroutines, dead: BOOLEAN]
NewTomb == [reason |-> "alive", live |-> {}, dead |-> FALSE]

Dying(t) == t.reason # "alive"

Go(t, g) == [t EXCEPT !.live = @ \cup {g}]

\* Kill: the first error is kept, and replaces nil.
Kill(t, reason) == [t EXCEPT !.reason = IF @ = "error" THEN @ ELSE reason]

\* A goroutine returns: an error kills the tomb, and so does the end of the last one.
Returned(t, g, reason) ==
  LET rest == [t EXCEPT !.live = @ \ {g}, !.dead = (t.live = {g})] IN
  IF reason = "error" \/ (rest.live = {} /\ ~Dying(t)) THEN Kill(rest, reason) ELSE rest
====
