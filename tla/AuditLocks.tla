----------------------------- MODULE AuditLocks ------------------------------
(***************************************************************************)
(* The PostgreSQL locks the audit functions take, in the order they take   *)
(* them.  AuditChain treats everything a session does under the row lock   *)
(* of audit_tail as one step; this module shows what that rests on, and    *)
(* what the forced reset adds to it.                                       *)
(*                                                                         *)
(* Locks are held to the end of the transaction.  PostgreSQL queues the    *)
(* requests it cannot grant and grants a request only when it conflicts    *)
(* neither with a lock held nor with a request queued before it.           *)
(***************************************************************************)
EXTENDS Naturals, Sequences

CONSTANTS
  Writers,     \* sessions that run log_access
  Pruners,     \* sessions that run pb_audit_checkpoint_and_prune
  Resetters,   \* sessions that run pb_audit_force_reset
  Verifiers    \* sessions that run pb_verify_audit_chain

ASSUME SessionsAssumption ==
  /\ Writers \cap (Pruners \cup Resetters \cup Verifiers) = {}
  /\ Pruners \cap (Resetters \cup Verifiers) = {}
  /\ Resetters \cap Verifiers = {}

VARIABLES
  step,     \* how many of its locks each session has asked for; Idle between calls
  holds,    \* the locks each session holds
  waiting,  \* the sessions that queue for the lock they asked for last
  ahead     \* the sessions each of them queues behind

lockVars == <<step, holds, waiting, ahead>>

Sessions == Writers \cup Pruners \cup Resetters \cup Verifiers
Idle == 0

-----------------------------------------------------------------------------
(* Lock modes and programs *)

\* On the table agent_access_log: ACCESS SHARE (SELECT), ROW EXCLUSIVE (INSERT,
\* DELETE) and ACCESS EXCLUSIVE (TRUNCATE).  TailRow is the row of audit_tail.
TailRow == "FOR UPDATE"
AccessShare == "ACCESS SHARE"
RowExclusive == "ROW EXCLUSIVE"
AccessExclusive == "ACCESS EXCLUSIVE"
Locks == {TailRow, AccessShare, RowExclusive, AccessExclusive}

Conflict(a, b) ==
  IF TailRow \in {a, b} THEN a = b ELSE AccessExclusive \in {a, b}

\* The INSERT locks the table, its BEFORE trigger then the tail row.
InsertLocks == <<RowExclusive, TailRow>>

PruneLocks_LockTable == <<TailRow, AccessExclusive>>

\* The prune locks the tail row, then reads, verifies and deletes.
PruneLocks == <<TailRow, AccessShare, RowExclusive>>

InsertLocks_TableOnly == <<RowExclusive>>

\* The reset's self-record is an INSERT; TRUNCATE follows it.
ResetLocks == <<RowExclusive, TailRow, AccessExclusive>>

\* The verifier only reads.
VerifyLocks == <<AccessShare>>

Program_NoTailLock(s) ==
  CASE s \in Writers   -> InsertLocks_TableOnly
    [] s \in Pruners   -> PruneLocks
    [] s \in Resetters -> ResetLocks
    [] s \in Verifiers -> VerifyLocks

\* The locks a session asks for, in order.
Program(s) ==
  CASE s \in Writers   -> InsertLocks
    [] s \in Pruners   -> PruneLocks
    [] s \in Resetters -> ResetLocks
    [] s \in Verifiers -> VerifyLocks

-----------------------------------------------------------------------------
(* The lock manager *)

\* The lock a session asked for last.
Asked(s) == Program(s)[step[s]]

Blocks(t, lock) == \E held \in holds[t] : Conflict(held, lock)

\* Who must go first for s to get a lock: the holders of conflicting locks, and
\* those queued before it for one, unless they wait for s itself.
WaitsFor(s, lock) ==
  LET before == IF s \in waiting THEN ahead[s] ELSE waiting
  IN  {t \in Sessions \ {s} : Blocks(t, lock)}
        \cup {t \in before \ {s} : Conflict(Asked(t), lock) /\ ~Blocks(s, Asked(t))}

Enqueue(s) ==
  /\ waiting' = waiting \cup {s}
  /\ ahead' = [ahead EXCEPT ![s] = waiting]

Dequeue(s) ==
  /\ waiting' = waiting \ {s}
  /\ ahead' = [t \in Sessions |-> IF t = s THEN {} ELSE ahead[t] \ {s}]

\* Sessions that wait for one another.
Cycles ==
  {d \in SUBSET waiting :
     /\ d # {}
     /\ \A s \in d : WaitsFor(s, Asked(s)) \cap d # {}}

Deadlocked ==
  UNION {d \in Cycles : \A e \in Cycles : e \subseteq d => e = d}

-----------------------------------------------------------------------------
(* Actions *)

LockInit ==
  /\ step = [s \in Sessions |-> Idle]
  /\ holds = [s \in Sessions |-> {}]
  /\ waiting = {}
  /\ ahead = [s \in Sessions |-> {}]

\* The next statement of the call asks for its lock and gets it, or queues.
Ask(s) ==
  /\ s \notin waiting
  /\ step[s] < Len(Program(s))
  /\ LET lock == Program(s)[step[s] + 1]
     IN  IF WaitsFor(s, lock) = {}
         THEN /\ holds' = [holds EXCEPT ![s] = @ \cup {lock}]
              /\ UNCHANGED <<waiting, ahead>>
         ELSE /\ Enqueue(s)
              /\ UNCHANGED holds
  /\ step' = [step EXCEPT ![s] = @ + 1]

\* A queued request is granted.
Grant(s) ==
  /\ s \in waiting
  /\ WaitsFor(s, Asked(s)) = {}
  /\ holds' = [holds EXCEPT ![s] = @ \cup {Asked(s)}]
  /\ Dequeue(s)
  /\ UNCHANGED step

Commit_KeepsTailLock(s) ==
  /\ step[s] = Len(Program(s))
  /\ s \notin waiting
  /\ step' = [step EXCEPT ![s] = Idle]
  /\ holds' = [holds EXCEPT ![s] = @ \cap {TailRow}]
  /\ UNCHANGED <<waiting, ahead>>

\* The call is over and its transaction commits.
Commit(s) ==
  /\ step[s] = Len(Program(s))
  /\ s \notin waiting
  /\ step' = [step EXCEPT ![s] = Idle]
  /\ holds' = [holds EXCEPT ![s] = {}]
  /\ UNCHANGED <<waiting, ahead>>

\* A prune that finds no row past the cutoff, or a chain that does not verify,
\* returns without deleting.
CommitWithoutDelete(p) ==
  /\ step[p] = 2
  /\ p \notin waiting
  /\ step' = [step EXCEPT ![p] = Idle]
  /\ holds' = [holds EXCEPT ![p] = {}]
  /\ UNCHANGED <<waiting, ahead>>

\* The deadlock detector rolls one member of a cycle back.
AbortVictim(s) ==
  /\ s \in Deadlocked
  /\ step' = [step EXCEPT ![s] = Idle]
  /\ holds' = [holds EXCEPT ![s] = {}]
  /\ Dequeue(s)

LockNext ==
  \/ \E s \in Sessions : Ask(s) \/ Grant(s) \/ Commit(s) \/ AbortVictim(s)
  \/ \E p \in Pruners : CommitWithoutDelete(p)

LockSpec == LockInit /\ [][LockNext]_lockVars

\* A session that runs goes on, a lock that can be granted is granted, and the
\* detector breaks a circle in the end.  No fairness for the start of a call.
GoOn(s) == (step[s] # Idle /\ Ask(s)) \/ Grant(s) \/ Commit(s) \/ AbortVictim(s)
LockFairSpec == LockSpec /\ \A s \in Sessions : WF_lockVars(GoOn(s))

-----------------------------------------------------------------------------
(* Properties *)

Granted(s) ==
  {Program(s)[i] : i \in {j \in 1..step[s] : j # step[s] \/ s \notin waiting}}

\* Every session holds what it asked for, except the lock it queues for.
LockTypeOK ==
  /\ waiting \subseteq Sessions
  /\ ahead \in [Sessions -> SUBSET waiting]
  /\ step \in [Sessions -> 0..3]
  /\ holds \in [Sessions -> SUBSET Locks]
  /\ \A s \in Sessions : s \in waiting => step[s] # Idle
  /\ \A s \in Sessions : step[s] <= Len(Program(s)) /\ holds[s] = Granted(s)

\* The sessions that hold all the locks of a call that changes the log.
Changing ==
  {s \in Sessions \ Verifiers : step[s] = Len(Program(s)) /\ s \notin waiting}

\* Changes to the log never overlap: this is what makes "everything under the
\* row lock" one step of AuditChain.
ChangesAreSerialised == \A s, t \in Changing : s = t

\* The audit writers, the prune and the verifiers never wait for one another in
\* a circle, whatever order they come in: the prune takes the two locks of the
\* INSERT in the opposite order, which only works because its table lock does
\* not conflict with theirs.  A circle always has a forced reset in it.
DeadlockNeedsReset == \A d \in Cycles : d \cap Resetters # {}

\* Every call ends: no session waits for a lock for ever, neither behind the
\* sessions that queue before it nor behind one that keeps its locks when it is
\* done.  By DeadlockNeedsReset a call ends as a victim of the deadlock detector
\* only when a forced reset is running.
EveryCallEnds == \A s \in Sessions : step[s] # Idle ~> step[s] = Idle

=============================================================================
