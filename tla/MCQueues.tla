------------------------------ MODULE MCQueues ------------------------------
(***************************************************************************)
(* ReviewQueue and AuditLocks in one run for TLC: reviews that wait for an *)
(* admin, and sessions that wait for a lock.  They share no state, so one  *)
(* of them moves in each behaviour and the other rests: the run is the sum *)
(* of the two instances, not their product.                                *)
(***************************************************************************)
EXTENDS ReviewQueue, AuditLocks

VARIABLE part

QueuesInit == Init /\ LockInit /\ part \in {"reviews", "locks"}

QueuesNext ==
  \/ part = "reviews" /\ Next /\ UNCHANGED <<lockVars, part>>
  \/ part = "locks" /\ LockNext /\ UNCHANGED <<vars, part>>

\* The fairness of the part that moves: that of FairSpec or of LockFairSpec.
QueuesFairness ==
  /\ WF_vars(part = "reviews" /\ Tick)
  /\ WF_vars(part = "reviews" /\ Sweep)
  /\ \A s \in Sessions : WF_lockVars(part = "locks" /\ GoOn(s))

QueuesSpec == QueuesInit /\ [][QueuesNext]_<<vars, lockVars, part>> /\ QueuesFairness

=============================================================================
