-------------------------- MODULE AuditLocks_proofs --------------------------
(***************************************************************************)
(* Proofs about AuditLocks for any number of writers, prunes, resets and   *)
(* verifiers: what a session holds, and that changes to the log never      *)
(* overlap, on which the atomic actions of AuditChain rest, and that a     *)
(* circle of waiting sessions needs a reset.                               *)
(***************************************************************************)
EXTENDS AuditLocks, TLAPS

LEMMA ProgramOf ==
  ASSUME NEW s \in Sessions
  PROVE  /\ s \in Writers   => Program(s) = InsertLocks
         /\ s \in Pruners   => Program(s) = PruneLocks
         /\ s \in Resetters => Program(s) = ResetLocks
         /\ s \in Verifiers => Program(s) = VerifyLocks
BY SessionsAssumption DEF Sessions, Program

\* Every program is a short sequence of locks.
LEMMA ProgramType ==
  ASSUME NEW s \in Sessions
  PROVE  /\ Len(Program(s)) \in 1..3
         /\ \A i \in 1..Len(Program(s)) : Program(s)[i] \in Locks
<1>1. CASE s \in Writers
  BY <1>1, ProgramOf DEF InsertLocks, Locks
<1>2. CASE s \in Pruners
  BY <1>2, ProgramOf DEF PruneLocks, Locks
<1>3. CASE s \in Resetters
  BY <1>3, ProgramOf DEF ResetLocks, Locks
<1>4. CASE s \in Verifiers
  BY <1>4, ProgramOf DEF VerifyLocks, Locks
<1>. QED
  BY <1>1, <1>2, <1>3, <1>4 DEF Sessions

\* A program that changes the log asks for the tail row.
LEMMA ChangersLockTail ==
  ASSUME NEW s \in Sessions \ Verifiers
  PROVE  \E i \in 1..Len(Program(s)) : Program(s)[i] = TailRow
<1>1. CASE s \in Writers
  BY <1>1, ProgramOf DEF InsertLocks
<1>2. CASE s \in Pruners
  BY <1>2, ProgramOf DEF PruneLocks
<1>3. CASE s \in Resetters
  BY <1>3, ProgramOf DEF ResetLocks
<1>. QED
  BY <1>1, <1>2, <1>3 DEF Sessions

-----------------------------------------------------------------------------
(* What the sessions hold *)

LEMMA TypeInit == LockInit => LockTypeOK
<1>. SUFFICES ASSUME LockInit PROVE LockTypeOK
  OBVIOUS
<1>1. ASSUME NEW s \in Sessions
      PROVE  step[s] <= Len(Program(s)) /\ holds[s] = Granted(s)
  BY <1>1, ProgramType DEF LockInit, Granted, Idle
<1>. QED
  BY <1>1 DEF LockInit, LockTypeOK, Idle

\* A session that starts to hold or to queue for its next lock, or that ends its
\* call, leaves what the others hold alone.
LEMMA OthersUnmoved ==
  ASSUME NEW s \in Sessions, NEW t \in Sessions, t # s,
         step'[t] = step[t], t \in waiting' <=> t \in waiting
  PROVE  Granted(t)' = Granted(t)
BY DEF Granted

LEMMA TypeStep == LockTypeOK /\ [LockNext]_lockVars => LockTypeOK'
<1>. SUFFICES ASSUME LockTypeOK, [LockNext]_lockVars
              PROVE  LockTypeOK'
  OBVIOUS
<1>. USE DEF Idle
<1>1. ASSUME NEW s \in Sessions, Ask(s)
      PROVE  LockTypeOK'
  <2>. DEFINE lock == Program(s)[step[s] + 1]
  <2>0. /\ step[s] \in Nat /\ step[s] + 1 \in 1..Len(Program(s)) /\ step[s] + 1 \in 0..3
        /\ lock \in Locks /\ s \notin waiting
        /\ step' = [step EXCEPT ![s] = step[s] + 1]
    BY <1>1, ProgramType DEF Ask, LockTypeOK
  <2>1. ASSUME NEW t \in Sessions, t # s
        PROVE  step'[t] <= Len(Program(t)) /\ holds'[t] = Granted(t)'
    <3>1. /\ step'[t] = step[t] /\ holds'[t] = holds[t]
          /\ t \in waiting' <=> t \in waiting
      BY <1>1, <2>0, <2>1 DEF Ask, Enqueue, LockTypeOK
    <3>. QED
      BY <3>1, <2>1, OthersUnmoved DEF LockTypeOK
  <2>2. CASE WaitsFor(s, lock) = {}
    <3>1. /\ holds' = [holds EXCEPT ![s] = holds[s] \cup {lock}]
          /\ waiting' = waiting /\ ahead' = ahead
      BY <1>1, <2>2 DEF Ask, LockTypeOK
    <3>2. Granted(s) = {Program(s)[i] : i \in 1..step[s]}
      BY <2>0 DEF Granted
    <3>3. Granted(s)' = {Program(s)[i] : i \in 1..(step[s] + 1)}
      BY <2>0, <3>1 DEF Granted, LockTypeOK
    <3>4. 1..(step[s] + 1) = 1..step[s] \cup {step[s] + 1}
      BY <2>0
    <3>5. Granted(s)' = Granted(s) \cup {lock}
      BY <3>2, <3>3, <3>4
    <3>6. step'[s] <= Len(Program(s)) /\ holds'[s] = Granted(s)'
      BY <2>0, <3>1, <3>5, ProgramType DEF LockTypeOK
    <3>7. holds' \in [Sessions -> SUBSET Locks] /\ step' \in [Sessions -> 0..3]
      BY <2>0, <3>1 DEF LockTypeOK
    <3>8. \A t \in Sessions : step'[t] <= Len(Program(t)) /\ holds'[t] = Granted(t)'
      BY <2>1, <3>6
    <3>9. \A t \in Sessions : t \in waiting' => step'[t] # 0
      BY <2>0, <3>1 DEF LockTypeOK
    <3>. QED
      BY <3>1, <3>7, <3>8, <3>9 DEF LockTypeOK
  <2>3. CASE WaitsFor(s, lock) # {}
    <3>1. /\ holds' = holds /\ waiting' = waiting \cup {s}
          /\ ahead' = [ahead EXCEPT ![s] = waiting]
      BY <1>1, <2>3 DEF Ask, Enqueue, LockTypeOK
    <3>2. {j \in 1..(step[s] + 1) : j # step[s] + 1} = 1..step[s]
      BY <2>0
    <3>3. Granted(s) = {Program(s)[i] : i \in 1..step[s]}
      BY <2>0 DEF Granted
    <3>4. Granted(s)' = {Program(s)[i] : i \in 1..step[s]}
      BY <2>0, <3>1, <3>2 DEF Granted, LockTypeOK
    <3>5. step'[s] <= Len(Program(s)) /\ holds'[s] = Granted(s)'
      BY <2>0, <3>1, <3>3, <3>4, ProgramType DEF LockTypeOK
    <3>6. \A t \in Sessions : step'[t] <= Len(Program(t)) /\ holds'[t] = Granted(t)'
      BY <2>1, <3>5
    <3>7. \A t \in Sessions : t \in waiting' => step'[t] # 0
      BY <2>0, <3>1 DEF LockTypeOK
    <3>8. step' \in [Sessions -> 0..3] /\ ahead' \in [Sessions -> SUBSET waiting']
      BY <2>0, <3>1 DEF LockTypeOK
    <3>. QED
      BY <3>1, <3>6, <3>7, <3>8 DEF LockTypeOK
  <2>. QED
    BY <2>2, <2>3
<1>2. ASSUME NEW s \in Sessions, Grant(s)
      PROVE  LockTypeOK'
  <2>. DEFINE lock == Program(s)[step[s]]
  <2>0. /\ step[s] \in 1..Len(Program(s)) /\ lock \in Locks /\ s \in waiting
        /\ step' = step
        /\ holds' = [holds EXCEPT ![s] = holds[s] \cup {lock}]
        /\ waiting' = waiting \ {s}
        /\ ahead' = [t \in Sessions |-> IF t = s THEN {} ELSE ahead[t] \ {s}]
    BY <1>2, ProgramType DEF Grant, Dequeue, Asked, LockTypeOK
  <2>1. ASSUME NEW t \in Sessions, t # s
        PROVE  step'[t] <= Len(Program(t)) /\ holds'[t] = Granted(t)'
    <3>1. /\ step'[t] = step[t] /\ holds'[t] = holds[t]
          /\ t \in waiting' <=> t \in waiting
      BY <2>0, <2>1 DEF LockTypeOK
    <3>. QED
      BY <3>1, <2>1, OthersUnmoved DEF LockTypeOK
  <2>2. Granted(s)' = Granted(s) \cup {lock}
    <3>1. Granted(s) = {Program(s)[i] : i \in 1..step[s] \ {step[s]}}
      <4>1. {j \in 1..step[s] : j # step[s] \/ s \notin waiting} = 1..step[s] \ {step[s]}
        BY <2>0
      <4>. QED
        BY <4>1 DEF Granted
    <3>2. Granted(s)' = {Program(s)[i] : i \in 1..step[s]}
      BY <2>0 DEF Granted
    <3>3. 1..step[s] = (1..step[s] \ {step[s]}) \cup {step[s]}
      BY <2>0
    <3>. QED
      BY <3>1, <3>2, <3>3
  <2>3. step'[s] <= Len(Program(s)) /\ holds'[s] = Granted(s)'
    BY <2>0, <2>2 DEF LockTypeOK
  <2>4. \A t \in Sessions : step'[t] <= Len(Program(t)) /\ holds'[t] = Granted(t)'
    BY <2>1, <2>3
  <2>5. holds' \in [Sessions -> SUBSET Locks] /\ ahead' \in [Sessions -> SUBSET waiting']
    BY <2>0 DEF LockTypeOK
  <2>. QED
    BY <2>0, <2>4, <2>5 DEF LockTypeOK
<1>3. ASSUME NEW s \in Sessions,
             /\ step' = [step EXCEPT ![s] = 0]
             /\ holds' = [holds EXCEPT ![s] = {}]
             /\ \/ s \notin waiting /\ UNCHANGED <<waiting, ahead>>
                \/ Dequeue(s)
      PROVE  LockTypeOK'
  <2>0. /\ waiting' = waiting \ {s}
        /\ ahead' \in [Sessions -> SUBSET waiting']
    BY <1>3 DEF LockTypeOK, Dequeue
  <2>1. ASSUME NEW t \in Sessions, t # s
        PROVE  step'[t] <= Len(Program(t)) /\ holds'[t] = Granted(t)'
    <3>1. /\ step'[t] = step[t] /\ holds'[t] = holds[t]
          /\ t \in waiting' <=> t \in waiting
      BY <1>3, <2>0, <2>1 DEF LockTypeOK
    <3>. QED
      BY <3>1, <2>1, OthersUnmoved DEF LockTypeOK
  <2>2. step'[s] <= Len(Program(s)) /\ holds'[s] = Granted(s)'
    BY <1>3, ProgramType DEF LockTypeOK, Granted
  <2>3. \A t \in Sessions : step'[t] <= Len(Program(t)) /\ holds'[t] = Granted(t)'
    BY <2>1, <2>2
  <2>4. step' \in [Sessions -> 0..3] /\ holds' \in [Sessions -> SUBSET Locks]
    BY <1>3 DEF LockTypeOK
  <2>5. waiting' \subseteq Sessions
    BY <1>3, <2>0 DEF LockTypeOK
  <2>6. \A t \in Sessions : t \in waiting' => step'[t] # 0
    BY <1>3, <2>0 DEF LockTypeOK
  <2>. QED
    BY <2>0, <2>3, <2>4, <2>5, <2>6 DEF LockTypeOK
<1>4. ASSUME NEW s \in Sessions, Commit(s)
      PROVE  LockTypeOK'
  BY <1>3, <1>4 DEF Commit, LockTypeOK
<1>5. ASSUME NEW s \in Sessions, AbortVictim(s)
      PROVE  LockTypeOK'
  BY <1>3, <1>5 DEF AbortVictim, LockTypeOK
<1>6. ASSUME NEW p \in Pruners, CommitWithoutDelete(p)
      PROVE  LockTypeOK'
  BY <1>3, <1>6 DEF CommitWithoutDelete, LockTypeOK, Sessions
<1>7. CASE UNCHANGED lockVars
  BY <1>7 DEF LockTypeOK, lockVars, Granted
<1>. QED
  BY <1>1, <1>2, <1>4, <1>5, <1>6, <1>7 DEF LockNext

\* Every session holds exactly the locks it asked for and was granted, for any
\* number of sessions of each kind.
THEOREM TypeCorrect == LockSpec => []LockTypeOK
BY TypeInit, TypeStep, PTL DEF LockSpec

-----------------------------------------------------------------------------
(* Changes to the log do not overlap *)

\* The row lock has one holder.
TailRowExclusive ==
  \A s, t \in Sessions : TailRow \in holds[s] /\ TailRow \in holds[t] => s = t

\* A lock is granted only when no other session holds one that conflicts.
LEMMA GrantedAlone ==
  ASSUME NEW s \in Sessions, NEW t \in Sessions, t # s,
         WaitsFor(s, TailRow) = {}
  PROVE  TailRow \notin holds[t]
BY DEF WaitsFor, Blocks, Conflict

LEMMA ExclusiveStep ==
  LockTypeOK /\ TailRowExclusive /\ [LockNext]_lockVars => TailRowExclusive'
<1>. SUFFICES ASSUME LockTypeOK, TailRowExclusive, [LockNext]_lockVars
              PROVE  TailRowExclusive'
  OBVIOUS
<1>1. ASSUME NEW s \in Sessions, NEW lock,
             WaitsFor(s, lock) = {},
             holds' = [holds EXCEPT ![s] = holds[s] \cup {lock}]
      PROVE  TailRowExclusive'
  <2>1. CASE lock = TailRow
    <3>1. \A t \in Sessions : t # s => TailRow \notin holds[t]
      BY <1>1, <2>1, GrantedAlone
    <3>. QED
      BY <1>1, <3>1 DEF TailRowExclusive, LockTypeOK
  <2>2. CASE lock # TailRow
    BY <1>1, <2>2 DEF TailRowExclusive, LockTypeOK
  <2>. QED
    BY <2>1, <2>2
<1>2. ASSUME NEW s \in Sessions, holds' = [holds EXCEPT ![s] = {}]
      PROVE  TailRowExclusive'
  BY <1>2 DEF TailRowExclusive, LockTypeOK
<1>3. ASSUME UNCHANGED holds
      PROVE  TailRowExclusive'
  BY <1>3 DEF TailRowExclusive
<1>4. ASSUME NEW s \in Sessions, Ask(s)
      PROVE  TailRowExclusive'
  BY <1>1, <1>3, <1>4 DEF Ask
<1>5. ASSUME NEW s \in Sessions, Grant(s)
      PROVE  TailRowExclusive'
  BY <1>1, <1>5 DEF Grant
<1>6. ASSUME NEW s \in Sessions, Commit(s) \/ AbortVictim(s)
      PROVE  TailRowExclusive'
  BY <1>2, <1>6 DEF Commit, AbortVictim
<1>7. ASSUME NEW p \in Pruners, CommitWithoutDelete(p)
      PROVE  TailRowExclusive'
  BY <1>2, <1>7 DEF CommitWithoutDelete, Sessions
<1>8. CASE UNCHANGED lockVars
  BY <1>3, <1>8 DEF lockVars
<1>. QED
  BY <1>4, <1>5, <1>6, <1>7, <1>8 DEF LockNext

\* A session that may change the log holds the row lock.
LEMMA ChangingHoldsTail ==
  ASSUME LockTypeOK, NEW s \in Changing
  PROVE  s \in Sessions /\ TailRow \in holds[s]
<1>1. s \in Sessions \ Verifiers /\ step[s] = Len(Program(s)) /\ s \notin waiting
  BY DEF Changing
<1>2. PICK i \in 1..Len(Program(s)) : Program(s)[i] = TailRow
  BY <1>1, ChangersLockTail
<1>. QED
  BY <1>1, <1>2 DEF LockTypeOK, Granted

\* At most one session at a time is past its last lock in a call that changes
\* the log: the inserts, prunes and resets are serialised by the row lock.
THEOREM ChangesSerialised == LockSpec => []ChangesAreSerialised
<1>1. LockInit => LockTypeOK /\ TailRowExclusive
  BY TypeInit DEF LockInit, TailRowExclusive
<1>2. LockTypeOK /\ TailRowExclusive /\ [LockNext]_lockVars => (LockTypeOK /\ TailRowExclusive)'
  BY TypeStep, ExclusiveStep
<1>3. LockTypeOK /\ TailRowExclusive => ChangesAreSerialised
  BY ChangingHoldsTail DEF TailRowExclusive, ChangesAreSerialised
<1>. QED
  BY <1>1, <1>2, <1>3, PTL DEF LockSpec

-----------------------------------------------------------------------------
(* A circle of waiting sessions has a forced reset in it *)

\* The queue has an order: of any sessions that wait, one queues behind none of
\* the others.
QueueOrdered ==
  \A D \in SUBSET waiting : D # {} => \E s \in D : ahead[s] \cap D = {}

LEMMA EnqueueKeepsOrder ==
  ASSUME LockTypeOK, QueueOrdered, NEW s \in Sessions, s \notin waiting, Enqueue(s)
  PROVE  QueueOrdered'
<1>. SUFFICES ASSUME NEW D \in SUBSET waiting', D # {}
              PROVE  \E t \in D : ahead'[t] \cap D = {}
  BY DEF QueueOrdered
<1>1. /\ waiting' = waiting \cup {s}
      /\ ahead'[s] = waiting
      /\ \A t \in waiting : ahead'[t] = ahead[t] /\ s \notin ahead[t]
  BY DEF Enqueue, LockTypeOK
<1>2. CASE D \subseteq {s}
  <2>1. D = {s}
    BY <1>2
  <2>. QED
    BY <1>1, <2>1
<1>3. CASE ~(D \subseteq {s})
  <2>1. D \ {s} \in SUBSET waiting /\ D \ {s} # {}
    BY <1>1, <1>3
  <2>2. PICK t \in D \ {s} : ahead[t] \cap (D \ {s}) = {}
    BY <2>1 DEF QueueOrdered
  <2>3. t \in D /\ ahead'[t] = ahead[t] /\ s \notin ahead[t]
    BY <1>1, <2>1, <2>2
  <2>. QED
    BY <2>2, <2>3
<1>. QED
  BY <1>2, <1>3

LEMMA DequeueKeepsOrder ==
  ASSUME LockTypeOK, QueueOrdered, NEW s \in Sessions, Dequeue(s)
  PROVE  QueueOrdered'
<1>. SUFFICES ASSUME NEW D \in SUBSET waiting', D # {}
              PROVE  \E t \in D : ahead'[t] \cap D = {}
  BY DEF QueueOrdered
<1>1. /\ waiting' = waiting \ {s}
      /\ \A t \in waiting' : ahead'[t] \subseteq ahead[t]
  BY DEF Dequeue, LockTypeOK
<1>2. D \in SUBSET waiting
  BY <1>1
<1>3. PICK t \in D : ahead[t] \cap D = {}
  BY <1>2 DEF QueueOrdered
<1>. QED
  BY <1>1, <1>3

LEMMA OrderStep == LockTypeOK /\ QueueOrdered /\ [LockNext]_lockVars => QueueOrdered'
<1>. SUFFICES ASSUME LockTypeOK, QueueOrdered, [LockNext]_lockVars
              PROVE  QueueOrdered'
  OBVIOUS
<1>1. ASSUME UNCHANGED <<waiting, ahead>>
      PROVE  QueueOrdered'
  BY <1>1 DEF QueueOrdered
<1>2. ASSUME NEW s \in Sessions, Ask(s)
      PROVE  QueueOrdered'
  BY <1>1, <1>2, EnqueueKeepsOrder DEF Ask
<1>3. ASSUME NEW s \in Sessions, Grant(s) \/ AbortVictim(s)
      PROVE  QueueOrdered'
  BY <1>3, DequeueKeepsOrder DEF Grant, AbortVictim
<1>4. ASSUME NEW s \in Sessions, Commit(s)
      PROVE  QueueOrdered'
  BY <1>1, <1>4 DEF Commit
<1>5. ASSUME NEW p \in Pruners, CommitWithoutDelete(p)
      PROVE  QueueOrdered'
  BY <1>1, <1>5 DEF CommitWithoutDelete
<1>6. CASE UNCHANGED lockVars
  BY <1>1, <1>6 DEF lockVars
<1>. QED
  BY <1>2, <1>3, <1>4, <1>5, <1>6 DEF LockNext

\* Only a reset locks the whole table, and no program asks twice for the row.
LEMMA OrdinaryPrograms ==
  ASSUME NEW s \in Sessions \ Resetters
  PROVE  /\ \A i \in 1..Len(Program(s)) : Program(s)[i] # AccessExclusive
         /\ \A i, j \in 1..Len(Program(s)) :
              Program(s)[i] = TailRow /\ Program(s)[j] = TailRow => i = j
<1>0. /\ TailRow # AccessExclusive /\ TailRow # AccessShare /\ TailRow # RowExclusive
      /\ AccessShare # AccessExclusive /\ RowExclusive # AccessExclusive
  BY DEF TailRow, AccessShare, RowExclusive, AccessExclusive
<1>1. CASE s \in Writers
  <2>1. Program(s) = <<RowExclusive, TailRow>>
    BY <1>1, ProgramOf DEF InsertLocks
  <2>2. /\ 1..Len(Program(s)) = {1, 2}
        /\ Program(s)[1] = RowExclusive /\ Program(s)[2] = TailRow
    BY <2>1
  <2>. QED
    BY <1>0, <2>2
<1>2. CASE s \in Pruners
  <2>1. Program(s) = <<TailRow, AccessShare, RowExclusive>>
    BY <1>2, ProgramOf DEF PruneLocks
  <2>2. /\ 1..Len(Program(s)) = {1, 2, 3}
        /\ Program(s)[1] = TailRow /\ Program(s)[2] = AccessShare
        /\ Program(s)[3] = RowExclusive
    BY <2>1
  <2>. QED
    BY <1>0, <2>2
<1>3. CASE s \in Verifiers
  <2>1. Program(s) = <<AccessShare>>
    BY <1>3, ProgramOf DEF VerifyLocks
  <2>2. 1..Len(Program(s)) = {1} /\ Program(s)[1] = AccessShare
    BY <2>1
  <2>. QED
    BY <1>0, <2>2
<1>. QED
  BY <1>1, <1>2, <1>3 DEF Sessions

\* What a waiting session that is no reset asks for and holds.
LEMMA OrdinaryWaiter ==
  ASSUME LockTypeOK, NEW s \in waiting, s \notin Resetters
  PROVE  /\ Asked(s) # AccessExclusive
         /\ AccessExclusive \notin holds[s]
         /\ Asked(s) = TailRow => TailRow \notin holds[s]
<1>1. /\ s \in Sessions \ Resetters
      /\ step[s] \in 1..Len(Program(s))
      /\ holds[s] = {Program(s)[i] : i \in {j \in 1..step[s] : j # step[s]}}
      /\ 1..step[s] \subseteq 1..Len(Program(s))
  BY ProgramType DEF LockTypeOK, Granted, Idle
<1>. QED
  BY <1>1, OrdinaryPrograms DEF Asked

LEMMA CirclesNeedReset == LockTypeOK /\ QueueOrdered => DeadlockNeedsReset
<1>. SUFFICES ASSUME LockTypeOK, QueueOrdered, NEW d \in Cycles, d \cap Resetters = {}
              PROVE  FALSE
  BY DEF DeadlockNeedsReset
<1>1. /\ d \in SUBSET waiting /\ d # {}
      /\ \A s \in d : WaitsFor(s, Asked(s)) \cap d # {}
  BY DEF Cycles
<1>2. ASSUME NEW s \in d, NEW t \in d, t \in WaitsFor(s, Asked(s))
      PROVE  t \in ahead[s]
  <2>1. /\ s \in waiting /\ s \notin Resetters
        /\ t \in waiting /\ t \notin Resetters
    BY <1>1
  <2>2. \/ \E held \in holds[t] : Conflict(held, Asked(s))
        \/ t \in ahead[s]
    BY <1>2, <2>1 DEF WaitsFor, Blocks
  <2>3. Asked(t) = TailRow
    <3>1. WaitsFor(t, Asked(t)) # {}
      BY <1>1, <1>2
    <3>2. PICK u \in d : u \in WaitsFor(t, Asked(t))
      BY <1>1, <1>2
    <3>3. u \in waiting /\ u \notin Resetters
      BY <1>1, <3>2
    <3>4. \/ \E held \in holds[u] : Conflict(held, Asked(t))
          \/ Conflict(Asked(u), Asked(t))
      BY <3>2 DEF WaitsFor, Blocks
    <3>. QED
      BY <2>1, <3>3, <3>4, OrdinaryWaiter DEF Conflict
  <2>4. ASSUME NEW held \in holds[t], Conflict(held, Asked(s))
        PROVE  FALSE
    BY <2>1, <2>3, <2>4, OrdinaryWaiter DEF Conflict
  <2>. QED
    BY <2>2, <2>4
<1>3. PICK s \in d : ahead[s] \cap d = {}
  BY <1>1 DEF QueueOrdered
<1>. QED
  BY <1>1, <1>2, <1>3

\* Whatever the number of sessions and the order they come in, audit writers,
\* prunes and verifiers never wait for one another in a circle: every deadlock
\* that PostgreSQL finds has a forced reset among its members.
THEOREM DeadlocksNeedReset == LockSpec => []DeadlockNeedsReset
<1>1. LockInit => LockTypeOK /\ QueueOrdered
  BY TypeInit DEF LockInit, QueueOrdered
<1>2. LockTypeOK /\ QueueOrdered /\ [LockNext]_lockVars => (LockTypeOK /\ QueueOrdered)'
  BY TypeStep, OrderStep
<1>. QED
  BY <1>1, <1>2, CirclesNeedReset, PTL DEF LockSpec

=============================================================================
