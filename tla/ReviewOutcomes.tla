--------------------------- MODULE ReviewOutcomes ----------------------------
(***************************************************************************)
(* What the approval queue promises: a review is opened once, and closed   *)
(* once, with one outcome that is never replaced by another.               *)
(***************************************************************************)
CONSTANTS Reviews

VARIABLE outcome

Outcomes == {"approved", "denied", "expired"}

Init == outcome = [r \in Reviews |-> "none"]

Open(r) ==
  /\ outcome[r] = "none"
  /\ outcome' = [outcome EXCEPT ![r] = "pending"]

\* Several reviews may be closed in one step (the hourly sweep).
Close(R, o) ==
  /\ \A r \in R : outcome[r] = "pending"
  /\ outcome' = [r \in Reviews |-> IF r \in R THEN o ELSE outcome[r]]

Next ==
  \/ \E r \in Reviews : Open(r)
  \/ \E R \in SUBSET Reviews, o \in Outcomes : Close(R, o)

Spec == Init /\ [][Next]_outcome

=============================================================================
