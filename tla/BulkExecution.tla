---------------------------- MODULE BulkExecution ----------------------------
(***************************************************************************)
(* What executing the lines of a batch promises: each line gets one        *)
(* result, Completed or Failed, that never changes; the call returns when  *)
(* every line has its result, or raises if a worker broke.  LinePool       *)
(* implements it.                                                          *)
(***************************************************************************)
CONSTANTS Lines

VARIABLES answer, outcome

vars == <<answer, outcome>>

Init ==
  /\ answer = [l \in Lines |-> "none"]
  /\ outcome = "running"

Answer(l, status) ==
  /\ outcome = "running"
  /\ answer[l] = "none"
  /\ answer' = [answer EXCEPT ![l] = status]
  /\ UNCHANGED outcome

Return ==
  /\ outcome = "running"
  /\ \A l \in Lines : answer[l] # "none"
  /\ outcome' = "returned"
  /\ UNCHANGED answer

Raise ==
  /\ outcome = "running"
  /\ outcome' = "raised"
  /\ UNCHANGED answer

Next ==
  \/ \E l \in Lines, status \in {"Completed", "Failed"} : Answer(l, status)
  \/ Return
  \/ Raise

Spec == Init /\ [][Next]_vars
=============================================================================
