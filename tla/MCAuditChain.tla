---------------------------- MODULE MCAuditChain -----------------------------
(* Instance of AuditChain for TLC. *)
EXTENDS AuditChain, TLC

\* Writers and payloads are interchangeable.
Symmetric == Permutations(Writers) \cup Permutations(Payloads)

=============================================================================
