------------------------------ MODULE MCGates -------------------------------
(***************************************************************************)
(* Ingestion and CircuitBreaker in one run for TLC: what the pipeline lets *)
(* in, and what the server still answers when it is switched off.  They    *)
(* share no state, so one of them moves in each behaviour and the other    *)
(* rests: the run is the sum of the two instances, not their product.      *)
(***************************************************************************)
EXTENDS MCIngestion, CircuitBreaker

CONSTANTS q1, q2, r2

VARIABLE part

\* Two processes, one request in each; the administrator reaches the first.
TwoProcesses == [t \in Tasks |-> IF t = r2 THEN q2 ELSE q1]

GatesInit == Init /\ BreakerInit /\ part \in {"ingestion", "breaker"}

GatesNext ==
  \/ part = "ingestion" /\ Next /\ UNCHANGED <<breakerVars, part>>
  \/ part = "breaker" /\ BreakerNext /\ UNCHANGED <<vars, part>>

GatesSpec == GatesInit /\ [][GatesNext]_<<vars, breakerVars, part>>

=============================================================================
