---------------------------- MODULE MCRetention -----------------------------
(* Instances of Retention for TLC: one deletion request names every dataset. *)
EXTENDS Retention

LinkedDatasets == [r \in Requests |-> Datasets]

=============================================================================
