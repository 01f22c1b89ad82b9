----------------------------- MODULE MCIngestion -----------------------------
(* Instances of Ingestion for TLC. *)
EXTENDS Ingestion, TLC

\* Sound: every property checked is a safety property, and chunks and salts are
\* only compared.
Symmetric == Permutations(Documents) \cup Permutations(Salts)

=============================================================================
