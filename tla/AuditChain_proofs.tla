-------------------------- MODULE AuditChain_proofs --------------------------
(***************************************************************************)
(* Proofs about AuditChain for every set of sessions and payloads and      *)
(* every bound: type correctness, the linkage of the live rows, that an    *)
(* honest chain and every honest range of it verify (with one              *)
(* checkpointing session), that damage is located and an altered row never *)
(* pruned, that writers beside the verifier raise no alarm, and that       *)
(* AuditChain implements AuditLedger.                                      *)
(***************************************************************************)
EXTENDS AuditStatus, WellFoundedInduction, TLAPS

-----------------------------------------------------------------------------
(* Type correctness *)

\* A digest grows by the entry that is hashed.
LEMMA HashPayloadType ==
  ASSUME NEW prev \in Digest, NEW id \in Nat, NEW t \in Nat,
         NEW payload \in Payloads \cup {ResetPayload}
  PROVE  /\ HashPayload(prev, id, payload, t) \in Digest
         /\ Len(HashPayload(prev, id, payload, t)) = Len(prev) + 1
<1>. DEFINE e == [id |-> id, payload |-> payload, created_at |-> t]
<1>1. e \in Entry
  BY DEF Entry
<1>2. /\ Append(prev, e) \in Seq(Entry)
      /\ Len(Append(prev, e)) = Len(prev) + 1
  <2>. HIDE DEF e
  <2>. QED
    BY <1>1 DEF Digest
<1>. QED
  BY <1>2 DEF HashPayload, Digest

\* The trigger makes a row of what the session inserts.
LEMMA TriggerRowType ==
  ASSUME TypeOK, NEW s \in Sessions, NEW payload \in Payloads \cup {ResetPayload}
  PROVE  TriggerRow(payload, began[s]) \in Row
<1>1. audit_tail.last_entry_hash \in Digest /\ audit_tail.last_entry_id + 1 \in Nat
  BY DEF TypeOK
<1>2. began[s] \in Nat
  BY DEF TypeOK
<1>3. HashPayload(audit_tail.last_entry_hash, audit_tail.last_entry_id + 1,
                  payload, began[s]) \in Digest
  BY <1>1, <1>2, HashPayloadType
<1>. QED
  BY <1>1, <1>2, <1>3 DEF TriggerRow, Row

LEMMA TypeInit == Init => TypeOK
BY BoundsAssumption DEF Init, TypeOK, Digest, Genesis, NotBegun

LEMMA TypeStep == TypeOK /\ [Next]_vars => TypeOK'
<1>. SUFFICES ASSUME TypeOK, [Next]_vars
              PROVE  TypeOK'
  OBVIOUS
<1>1. ASSUME NEW s \in Sessions, Begin(s)
      PROVE  TypeOK'
  BY <1>1 DEF Begin, TypeOK
<1>2. ASSUME NEW s \in Sessions, Rollback(s)
      PROVE  TypeOK'
  BY <1>2 DEF Rollback, TypeOK, NotBegun
<1>3. ASSUME NEW w \in Writers, LogAccess(w)
      PROVE  TypeOK'
  <2>1. PICK payload \in Payloads :
          LET row == TriggerRow(payload, began[w])
          IN  /\ agent_access_log' = agent_access_log \cup {row}
              /\ audit_tail' = [last_entry_hash |-> row.entry_hash,
                                last_entry_id |-> row.id]
    BY <1>3 DEF LogAccess
  <2>2. TriggerRow(payload, began[w]) \in Row
    BY TriggerRowType DEF Sessions
  <2>3. agent_access_log' \subseteq Row
    BY <2>1, <2>2 DEF TypeOK
  <2>4. audit_tail' \in [last_entry_hash : Digest, last_entry_id : Nat]
    BY <2>1, <2>2 DEF Row
  <2>. QED
    BY <1>3, <2>3, <2>4 DEF LogAccess, TypeOK, NotBegun, Sessions
<1>4. ASSUME NEW c \in Checkpointers, Prune(c)
      PROVE  TypeOK'
  <2>1. PICK last \in agent_access_log :
          /\ audit_archive' = audit_archive \cup {PruneCheckpoint(c, last)}
          /\ agent_access_log' = IF PrefixValid(last)
                                 THEN agent_access_log \ Prefix(last)
                                 ELSE agent_access_log
    BY <1>4 DEF Prune
  <2>3. PrefixValid(last) \in BOOLEAN
    BY DEF PrefixValid, ChainValid
  <2>4. began[c] \in Nat /\ last \in Row
    BY DEF TypeOK, Sessions
  <2>5. PruneCheckpoint(c, last) \in Checkpoint
    BY <2>3, <2>4 DEF PruneCheckpoint, Checkpoint, Row
  <2>6. agent_access_log' \subseteq Row /\ audit_archive' \subseteq Checkpoint
    BY <2>1, <2>5 DEF TypeOK
  <2>. QED
    BY <1>4, <2>6 DEF Prune, TypeOK, NotBegun, Sessions
<1>5. ASSUME NEW c \in Checkpointers, PruneNothing(c)
      PROVE  TypeOK'
  BY <1>5 DEF PruneNothing, TypeOK, NotBegun, Sessions
<1>6. ASSUME NEW c \in Checkpointers, ContinuityReset(c)
      PROVE  TypeOK'
  <2>1. TriggerRow(ResetPayload, began[c]) \in Row /\ began[c] \in Nat
    BY TriggerRowType DEF Sessions, TypeOK
  <2>2. ResetCheckpoint(c) \in Checkpoint
    BY <2>1 DEF ResetCheckpoint, Checkpoint, Row
  <2>3. audit_tail' \in [last_entry_hash : Digest, last_entry_id : Nat]
    BY <1>6, <2>2 DEF ContinuityReset, Checkpoint
  <2>. QED
    BY <1>6, <2>2, <2>3 DEF ContinuityReset, TypeOK, NotBegun, Sessions
<1>7. ASSUME NEW c \in Checkpointers, GenesisReset(c)
      PROVE  TypeOK'
  BY <1>7 DEF GenesisReset, TypeOK, NotBegun, Sessions, Genesis, Digest
<1>8. CASE Damage
  <2>1. PICK r \in agent_access_log, payload \in Payloads :
          agent_access_log' = (agent_access_log \ {r})
                                \cup {[r EXCEPT !.payload = payload]}
    BY <1>8 DEF Damage
  <2>2. [r EXCEPT !.payload = payload] \in Row
    BY DEF TypeOK, Row
  <2>. QED
    BY <1>8, <2>1, <2>2 DEF Damage, TypeOK
<1>9. CASE UNCHANGED vars
  BY <1>9 DEF vars, TypeOK
<1>. QED
  BY <1>1, <1>2, <1>3, <1>4, <1>5, <1>6, <1>7, <1>8, <1>9 DEF Next

\* In every reachable state the tables, the tail pointer and the sessions hold
\* values of their types: init-db/014 and 022-026 as modelled never mix them up.
THEOREM TypeCorrect == Spec => []TypeOK
BY TypeInit, TypeStep, PTL DEF Spec

-----------------------------------------------------------------------------
(* The linkage of the live rows *)

\* Each row's digest is one entry longer than the one before it, up to the tail.
Lengths ==
  \A r \in agent_access_log :
    /\ Len(r.entry_hash) = Len(r.prev_hash) + 1
    /\ Len(audit_tail.last_entry_hash)
         = Len(r.entry_hash) + (audit_tail.last_entry_id - r.id)

HasOldest ==
  agent_access_log # {} =>
    \E r \in agent_access_log : \A q \in agent_access_log : r.id <= q.id

\* ChainLinked is not inductive by itself only because the refinement and the
\* honest-chain argument also need an oldest row and the lengths.
LinkInv == ChainLinked /\ Lengths /\ HasOldest

LEMMA LinkInit == Init => LinkInv
BY DEF Init, LinkInv, ChainLinked, Lengths, HasOldest

LEMMA LinkLogAccess ==
  ASSUME TypeOK, LinkInv, NEW w \in Writers, LogAccess(w)
  PROVE  LinkInv'
<1>1. PICK payload \in Payloads :
        /\ agent_access_log' = agent_access_log \cup {TriggerRow(payload, began[w])}
        /\ audit_tail' = [last_entry_hash |-> TriggerRow(payload, began[w]).entry_hash,
                          last_entry_id |-> TriggerRow(payload, began[w]).id]
  BY DEF LogAccess
<1>. DEFINE row == TriggerRow(payload, began[w])
<1>2. row \in Row /\ began[w] \in Nat
  BY TriggerRowType DEF Sessions, TypeOK
<1>3. /\ audit_tail.last_entry_id \in Nat
      /\ audit_tail.last_entry_hash \in Digest
  BY DEF TypeOK
<1>4. /\ row.id = audit_tail.last_entry_id + 1
      /\ row.prev_hash = audit_tail.last_entry_hash
      /\ Len(row.entry_hash) = Len(row.prev_hash) + 1
  <2>1. row.entry_hash = HashPayload(audit_tail.last_entry_hash,
                                    audit_tail.last_entry_id + 1, payload, began[w])
    BY DEF TriggerRow
  <2>2. row.id = audit_tail.last_entry_id + 1 /\ row.prev_hash = audit_tail.last_entry_hash
    BY DEF TriggerRow
  <2>3. Len(row.entry_hash) = Len(audit_tail.last_entry_hash) + 1
    <3>1. audit_tail.last_entry_id + 1 \in Nat /\ payload \in Payloads \cup {ResetPayload}
      BY <1>3
    <3>2. Len(HashPayload(audit_tail.last_entry_hash, audit_tail.last_entry_id + 1,
                          payload, began[w])) = Len(audit_tail.last_entry_hash) + 1
      BY <3>1, <1>2, <1>3, HashPayloadType
    <3>. QED
      BY <2>1, <3>2
  <2>. QED
    BY <2>2, <2>3
<1>5. /\ audit_tail'.last_entry_hash = row.entry_hash
      /\ audit_tail'.last_entry_id = row.id
      /\ agent_access_log' = agent_access_log \cup {row}
  BY <1>1
<1>6. \A r \in agent_access_log : r \in Row /\ 1 <= r.id /\ r.id < row.id
  BY <1>3, <1>4 DEF TypeOK, LinkInv, ChainLinked, Row
<1>. HIDE DEF row
<1>7. ChainLinked'
  <2>1. ASSUME NEW r \in agent_access_log', NEW i \in r.id..audit_tail'.last_entry_id
        PROVE  \E q \in agent_access_log' : q.id = i
    <3>1. CASE i = row.id
      BY <3>1, <1>5
    <3>2. CASE i # row.id
      <4>1. r \in agent_access_log /\ i \in r.id..audit_tail.last_entry_id
        BY <3>2, <1>2, <1>3, <1>4, <1>5, <1>6 DEF Row
      <4>. QED
        BY <4>1, <1>5 DEF LinkInv, ChainLinked
    <3>. QED
      BY <3>1, <3>2
  <2>2. \A r \in agent_access_log' : 1 <= r.id /\ r.id <= audit_tail'.last_entry_id
    BY <1>2, <1>3, <1>4, <1>5, <1>6 DEF Row
  <2>3. \A r, q \in agent_access_log' : r.id = q.id => r = q
    BY <1>5, <1>6 DEF LinkInv, ChainLinked, Row
  <2>4. ASSUME NEW r \in agent_access_log', NEW q \in agent_access_log',
               q.id = r.id + 1
        PROVE  q.prev_hash = r.entry_hash
    <3>1. CASE q = row
      <4>1. r \in agent_access_log /\ r.id = audit_tail.last_entry_id
        BY <3>1, <2>4, <1>2, <1>3, <1>4, <1>5, <1>6 DEF Row
      <4>. QED
        BY <4>1, <3>1, <1>4 DEF LinkInv, ChainLinked
    <3>2. CASE q # row
      <4>1. q \in agent_access_log /\ r \in agent_access_log
        BY <3>2, <2>4, <1>2, <1>3, <1>4, <1>5, <1>6 DEF Row
      <4>. QED
        BY <4>1, <2>4 DEF LinkInv, ChainLinked
    <3>. QED
      BY <3>1, <3>2
  <2>5. \A r \in agent_access_log' :
          r.id = audit_tail'.last_entry_id => r.entry_hash = audit_tail'.last_entry_hash
    BY <1>5, <1>6 DEF Row
  <2>. QED
    BY <2>1, <2>2, <2>3, <2>4, <2>5 DEF ChainLinked
<1>8. Lengths'
  <2>1. Len(audit_tail'.last_entry_hash) = Len(audit_tail.last_entry_hash) + 1
    BY <1>4, <1>5
  <2>2. Len(audit_tail.last_entry_hash) \in Nat
    BY <1>3 DEF Digest
  <2>3. ASSUME NEW r \in agent_access_log
        PROVE  /\ Len(r.entry_hash) = Len(r.prev_hash) + 1
               /\ Len(audit_tail'.last_entry_hash)
                    = Len(r.entry_hash) + (audit_tail'.last_entry_id - r.id)
    <3>1. r \in Row /\ Len(r.entry_hash) \in Nat
      BY <1>6 DEF Row, Digest
    <3>2. /\ Len(r.entry_hash) = Len(r.prev_hash) + 1
          /\ Len(audit_tail.last_entry_hash)
               = Len(r.entry_hash) + (audit_tail.last_entry_id - r.id)
      BY DEF LinkInv, Lengths
    <3>. QED
      BY <3>1, <3>2, <2>1, <2>2, <1>3, <1>4, <1>5 DEF Row
  <2>4. Len(row.entry_hash) \in Nat
    BY <1>2 DEF Row, Digest
  <2>. QED
    BY <2>3, <2>4, <1>2, <1>4, <1>5 DEF Lengths, Row
<1>9. HasOldest'
  <2>1. CASE agent_access_log = {}
    BY <2>1, <1>2, <1>5 DEF HasOldest, Row
  <2>2. CASE agent_access_log # {}
    <3>1. PICK r \in agent_access_log : \A q \in agent_access_log : r.id <= q.id
      BY <2>2 DEF LinkInv, HasOldest
    <3>. QED
      BY <3>1, <1>2, <1>5, <1>6 DEF HasOldest, Row
  <2>. QED
    BY <2>1, <2>2
<1>. QED
  BY <1>7, <1>8, <1>9 DEF LinkInv

\* What remains above a prefix still is linked, and its oldest row follows it.
LEMMA AfterPrefix ==
  ASSUME TypeOK, LinkInv, NEW last \in agent_access_log,
         NEW q \in agent_access_log \ Prefix(last)
  PROVE  \E r \in agent_access_log \ Prefix(last) :
           /\ r.id = last.id + 1
           /\ r.prev_hash = last.entry_hash
           /\ \A o \in agent_access_log \ Prefix(last) : r.id <= o.id
<1>1. /\ last.id \in Nat /\ q.id \in Nat /\ last.id < q.id
      /\ audit_tail.last_entry_id \in Nat /\ q.id <= audit_tail.last_entry_id
  BY DEF TypeOK, Prefix, Row, LinkInv, ChainLinked
<1>2. last.id + 1 \in last.id..audit_tail.last_entry_id
  BY <1>1
<1>3. PICK r \in agent_access_log : r.id = last.id + 1
  BY <1>2 DEF LinkInv, ChainLinked
<1>4. r \notin Prefix(last) /\ r.prev_hash = last.entry_hash
  BY <1>1, <1>3 DEF Prefix, LinkInv, ChainLinked
<1>5. \A o \in agent_access_log \ Prefix(last) : r.id <= o.id
  BY <1>1, <1>3 DEF Prefix, TypeOK, Row
<1>. QED
  BY <1>3, <1>4, <1>5

LEMMA LinkPrune ==
  ASSUME TypeOK, LinkInv, NEW c \in Checkpointers, Prune(c)
  PROVE  LinkInv'
<1>1. PICK last \in agent_access_log :
        agent_access_log' = IF PrefixValid(last)
                            THEN agent_access_log \ Prefix(last)
                            ELSE agent_access_log
  BY DEF Prune
<1>2. UNCHANGED audit_tail
  BY DEF Prune
<1>3. CASE ~PrefixValid(last)
  <2>1. UNCHANGED <<agent_access_log, audit_tail>>
    BY <1>1, <1>2, <1>3
  <2>. QED
    BY <2>1 DEF LinkInv, ChainLinked, Lengths, HasOldest
<1>4. CASE PrefixValid(last)
  <2>1. agent_access_log' = agent_access_log \ Prefix(last)
    BY <1>1, <1>4
  <2>2. last.id \in Nat /\ audit_tail.last_entry_id \in Nat
        /\ \A r \in agent_access_log : r.id \in Nat
    BY DEF TypeOK, Row
  <2>3. ASSUME NEW r \in agent_access_log', NEW i \in r.id..audit_tail.last_entry_id
        PROVE  \E q \in agent_access_log' : q.id = i
    <3>1. r \in agent_access_log /\ last.id < r.id
      BY <2>1, <2>2 DEF Prefix
    <3>2. PICK q \in agent_access_log : q.id = i
      BY <3>1 DEF LinkInv, ChainLinked
    <3>. QED
      BY <3>1, <3>2, <2>1, <2>2 DEF Prefix
  <2>4. ChainLinked'
    BY <2>1, <2>3, <1>2 DEF LinkInv, ChainLinked
  <2>5. Lengths'
    BY <2>1, <1>2 DEF LinkInv, Lengths
  <2>6. HasOldest'
    BY <2>1, AfterPrefix DEF HasOldest
  <2>. QED
    BY <2>4, <2>5, <2>6 DEF LinkInv
<1>. QED
  BY <1>3, <1>4

LEMMA LinkDamage ==
  ASSUME TypeOK, LinkInv, Damage
  PROVE  LinkInv'
<1>1. PICK r \in agent_access_log, payload \in Payloads :
        agent_access_log' = (agent_access_log \ {r})
                              \cup {[r EXCEPT !.payload = payload]}
  BY DEF Damage
<1>. DEFINE d == [r EXCEPT !.payload = payload]
<1>2. /\ r \in Row /\ d \in Row
      /\ d.id = r.id /\ d.prev_hash = r.prev_hash /\ d.entry_hash = r.entry_hash
  BY DEF TypeOK, Row
<1>3. UNCHANGED audit_tail
  BY DEF Damage
<1>. HIDE DEF d
\* Every row after the step stands for one before it, and the other way round.
<1>4. \A q \in agent_access_log' : \E o \in agent_access_log :
        /\ o.id = q.id /\ o.prev_hash = q.prev_hash /\ o.entry_hash = q.entry_hash
        /\ (q = d /\ o = r) \/ (q = o /\ q # r)
  BY <1>1, <1>2 DEF d
<1>5. \A o \in agent_access_log : \E q \in agent_access_log' : o.id = q.id
  BY <1>1, <1>2 DEF d
<1>6. ChainLinked'
  <2>1. ASSUME NEW q \in agent_access_log', NEW i \in q.id..audit_tail.last_entry_id
        PROVE  \E o \in agent_access_log' : o.id = i
    BY <1>4, <1>5 DEF LinkInv, ChainLinked
  <2>2. \A q \in agent_access_log' : 1 <= q.id /\ q.id <= audit_tail.last_entry_id
    BY <1>4 DEF LinkInv, ChainLinked
  <2>3. \A q, o \in agent_access_log' : q.id = o.id => q = o
    BY <1>4 DEF LinkInv, ChainLinked
  <2>4. \A q, o \in agent_access_log' : o.id = q.id + 1 => o.prev_hash = q.entry_hash
    BY <1>4 DEF LinkInv, ChainLinked
  <2>5. \A q \in agent_access_log' :
          q.id = audit_tail.last_entry_id => q.entry_hash = audit_tail.last_entry_hash
    BY <1>4 DEF LinkInv, ChainLinked
  <2>. QED
    BY <1>3, <2>1, <2>2, <2>3, <2>4, <2>5 DEF ChainLinked
<1>7. Lengths'
  BY <1>3, <1>4 DEF LinkInv, Lengths
<1>8. HasOldest'
  <2>1. PICK o \in agent_access_log : \A q \in agent_access_log : o.id <= q.id
    BY DEF LinkInv, HasOldest
  <2>2. PICK q \in agent_access_log' : o.id = q.id
    BY <1>5
  <2>. QED
    BY <2>1, <2>2, <1>4 DEF HasOldest
<1>. QED
  BY <1>6, <1>7, <1>8 DEF LinkInv

LEMMA LinkStep == TypeOK /\ LinkInv /\ [Next]_vars => LinkInv'
<1>. SUFFICES ASSUME TypeOK, LinkInv, [Next]_vars
              PROVE  LinkInv'
  OBVIOUS
<1>. USE DEF LinkInv, ChainLinked, Lengths, HasOldest
<1>1. ASSUME NEW s \in Sessions, Begin(s) \/ Rollback(s)
      PROVE  LinkInv'
  BY <1>1 DEF Begin, Rollback
<1>2. ASSUME NEW c \in Checkpointers, PruneNothing(c)
      PROVE  LinkInv'
  BY <1>2 DEF PruneNothing
<1>3. ASSUME NEW c \in Checkpointers, ContinuityReset(c) \/ GenesisReset(c)
      PROVE  LinkInv'
  BY <1>3 DEF ContinuityReset, GenesisReset
<1>4. CASE UNCHANGED vars
  BY <1>4 DEF vars
<1>. QED
  BY <1>1, <1>2, <1>3, <1>4, LinkLogAccess, LinkPrune, LinkDamage DEF Next

\* Under any interleaving of writers, prunes and resets the live rows carry
\* consecutive ids up to audit_tail, each linked to the one before: the claim
\* init-db/022 makes for its trigger.
THEOREM ChainAlwaysLinked == Spec => []ChainLinked
<1>1. LinkInv => ChainLinked
  BY DEF LinkInv
<1>. QED
  BY <1>1, LinkInit, LinkStep, TypeCorrect, PTL DEF Spec

-----------------------------------------------------------------------------
(* An honest chain verifies *)

\* Checkpoints are stamped with transaction starts, so with one checkpointing
\* session they are older than its open transaction.
ClockInv ==
  /\ \A s \in Sessions : began[s] <= clock
  /\ \A a \in audit_archive : a.archived_at <= clock
  /\ \A a \in audit_archive, c \in Checkpointers :
       began[c] # NotBegun => a.archived_at < began[c]

\* The seed the verifier will use is what the oldest live row continues.
SeedLinks ==
  /\ agent_access_log = {} => ArchiveSeed(audit_archive) = audit_tail.last_entry_hash
  /\ \A r \in agent_access_log :
       (\A q \in agent_access_log : r.id <= q.id) =>
         r.prev_hash = ArchiveSeed(audit_archive)

\* No prune has left a checkpoint without its deletion.
Sound == \A a \in audit_archive : a.chain_valid \/ a.is_reset

\* A checkpoint that did not verify is newer than the rows it kept: only then the seed
\* is not theirs.
SeedInv ==
  /\ Sound => SeedLinks
  /\ damages = 0 => Sound /\ \A r \in agent_access_log : ~Damaged(r)

HonestInv == TypeOK /\ LinkInv /\ ClockInv /\ SeedInv

\* The latest checkpoint provides the seed.
LEMMA LatestCheckpoint ==
  ASSUME NEW archive \in SUBSET Checkpoint, NEW a \in archive,
         \A b \in archive : b # a => b.archived_at < a.archived_at
  PROVE  ArchiveSeed(archive) = a.last_verified_hash
<1>1. \A b \in archive : b.archived_at \in Nat
  BY DEF Checkpoint
<1>2. \A b \in archive : b.archived_at <= a.archived_at
  BY <1>1
<1>3. \A b \in archive : (\A o \in archive : o.archived_at <= b.archived_at) => b = a
  BY <1>1
<1>4. (CHOOSE b \in archive : \A o \in archive : o.archived_at <= b.archived_at) = a
  BY <1>2, <1>3
<1>. QED
  BY <1>4 DEF ArchiveSeed

\* What the verifier expects before a row, from whatever id it walks, is what the row
\* says comes before it.
LEMMA ExpectedIsPrev ==
  ASSUME TypeOK, LinkInv, SeedLinks, NEW s \in Nat, NEW e \in Nat,
         NEW r \in Range(agent_access_log, s, e)
  PROVE  ExpectedPrev(Range(agent_access_log, s, e),
                      StartSeed(agent_access_log, audit_archive, s), r) = r.prev_hash
<1>. DEFINE S == Range(agent_access_log, s, e)
            seed == StartSeed(agent_access_log, audit_archive, s)
            before == {q \in S : q.id < r.id}
<1>1. \A q \in agent_access_log :
        q.id \in Nat /\ 1 <= q.id /\ q.id <= audit_tail.last_entry_id
  BY DEF TypeOK, Row, LinkInv, ChainLinked
<1>2. audit_tail.last_entry_id \in Nat
  BY DEF TypeOK
<1>3. r \in agent_access_log /\ s <= r.id /\ r.id <= e
  BY DEF Range
<1>4. ASSUME NEW q \in agent_access_log, q.id < r.id
      PROVE  \E p \in agent_access_log : p.id = r.id - 1 /\ p.entry_hash = r.prev_hash
  <2>1. r.id - 1 \in q.id..audit_tail.last_entry_id
    BY <1>1, <1>2, <1>3, <1>4
  <2>2. PICK p \in agent_access_log : p.id = r.id - 1
    BY <2>1 DEF LinkInv, ChainLinked
  <2>3. r.id = p.id + 1
    BY <2>2, <1>1, <1>3
  <2>. QED
    BY <2>2, <2>3, <1>3 DEF LinkInv, ChainLinked
<1>5. CASE before = {}
  <2>1. ExpectedPrev(S, seed, r) = seed
    BY <1>5 DEF ExpectedPrev
  <2>2. CASE s > 1 /\ \E q \in agent_access_log : q.id = s - 1
    <3>1. PICK q \in agent_access_log : q.id = s - 1
      BY <2>2
    <3>2. \A o \in agent_access_log : o.id = s - 1 => o = q
      BY <3>1 DEF LinkInv, ChainLinked
    <3>3. (CHOOSE o \in agent_access_log : o.id = s - 1) = q
      BY <3>1, <3>2
    <3>4. seed = q.entry_hash
      BY <2>2, <3>3 DEF StartSeed
    <3>5. q.id < r.id
      BY <3>1, <1>1, <1>3, <2>2
    <3>6. PICK p \in agent_access_log : p.id = r.id - 1 /\ p.entry_hash = r.prev_hash
      BY <3>5, <1>4
    <3>7. p \notin S
      BY <3>6, <1>1, <1>3, <1>5
    <3>8. p.id = s - 1
      BY <3>6, <3>7, <1>1, <1>3 DEF Range
    <3>. QED
      BY <2>1, <3>2, <3>4, <3>6, <3>8
  <2>3. CASE ~(s > 1 /\ \E q \in agent_access_log : q.id = s - 1)
    <3>1. seed = ArchiveSeed(audit_archive)
      BY <2>3 DEF StartSeed
    <3>2. ASSUME NEW q \in agent_access_log, q.id < r.id
          PROVE  FALSE
      <4>1. q \notin S
        BY <3>2, <1>5
      <4>2. q.id < s
        BY <4>1, <3>2, <1>1, <1>3 DEF Range
      <4>3. s - 1 \in q.id..audit_tail.last_entry_id /\ s > 1
        BY <4>2, <1>1, <1>2, <1>3
      <4>. QED
        BY <4>3, <2>3 DEF LinkInv, ChainLinked
    <3>3. \A q \in agent_access_log : r.id <= q.id
      BY <3>2, <1>1, <1>3
    <3>. QED
      BY <2>1, <3>1, <3>3, <1>3 DEF SeedLinks
  <2>. QED
    BY <2>2, <2>3
<1>6. CASE before # {}
  <2>1. PICK o \in before : TRUE
    BY <1>6
  <2>2. o \in agent_access_log /\ s <= o.id /\ o.id < r.id
    BY <2>1 DEF Range
  <2>3. PICK p \in agent_access_log : p.id = r.id - 1 /\ p.entry_hash = r.prev_hash
    BY <2>2, <1>4
  <2>4. p \in before
    BY <2>2, <2>3, <1>1, <1>3 DEF Range
  <2>5. \A q \in before : q \in agent_access_log /\ q.id < r.id
    BY DEF Range
  <2>6. \A q \in before : q.id <= p.id
    BY <2>3, <2>5, <1>1, <1>3
  <2>7. ASSUME NEW q \in before, \A x \in before : x.id <= q.id
        PROVE  q = p
    <3>1. q.id = p.id
      BY <2>4, <2>5, <2>6, <2>7, <1>1
    <3>. QED
      BY <3>1, <2>5 DEF LinkInv, ChainLinked
  <2>8. (CHOOSE q \in before : \A x \in before : x.id <= q.id) = p
    BY <2>4, <2>6, <2>7
  <2>. QED
    BY <1>6, <2>3, <2>8 DEF ExpectedPrev
<1>. QED
  BY <1>5, <1>6

\* So the walk stops at the altered rows of its range and at no other.
LEMMA BreaksAreDamaged ==
  ASSUME TypeOK, LinkInv, SeedLinks, NEW s \in Nat, NEW e \in Nat
  PROVE  Breaks(Range(agent_access_log, s, e),
                StartSeed(agent_access_log, audit_archive, s))
           = {r \in Range(agent_access_log, s, e) : Damaged(r)}
<1>1. \A r \in Range(agent_access_log, s, e) :
        ExpectedPrev(Range(agent_access_log, s, e),
                     StartSeed(agent_access_log, audit_archive, s), r) = r.prev_hash
  BY ExpectedIsPrev
<1>. QED
  BY <1>1 DEF Breaks, Damaged

\* The whole log and its prefixes are ranges from id 0.
LEMMA PrefixesAreRanges ==
  ASSUME TypeOK, LinkInv
  PROVE  /\ StartSeed(agent_access_log, audit_archive, 0) = ArchiveSeed(audit_archive)
         /\ \A last \in agent_access_log : Prefix(last) = Range(agent_access_log, 0, last.id)
         /\ agent_access_log = Range(agent_access_log, 0, audit_tail.last_entry_id)
<1>1. \A r \in agent_access_log :
        r.id \in Nat /\ 0 <= r.id /\ r.id <= audit_tail.last_entry_id
  BY DEF TypeOK, Row, LinkInv, ChainLinked
<1>. QED
  BY <1>1 DEF StartSeed, Prefix, Range

LEMMA HonestImpliesAccepted == HonestInv => HonestChainAccepted
<1>. SUFFICES ASSUME HonestInv, damages = 0
              PROVE  VerifyWhole
  BY DEF HonestChainAccepted
<1>1. TypeOK /\ LinkInv /\ SeedLinks /\ audit_tail.last_entry_id \in Nat
      /\ \A r \in agent_access_log : ~Damaged(r)
  BY DEF HonestInv, SeedInv, TypeOK
<1>2. Breaks(agent_access_log, ArchiveSeed(audit_archive))
        = {r \in agent_access_log : Damaged(r)}
  BY <1>1, BreaksAreDamaged, PrefixesAreRanges
<1>. QED
  BY <1>1, <1>2 DEF VerifyWhole, ChainValid, SeedMismatch, SeedLinks

LEMMA HonestInit == Init => ClockInv /\ SeedInv
BY BoundsAssumption DEF Init, ClockInv, SeedInv, Sound, SeedLinks, ArchiveSeed, NotBegun

LEMMA ClockStep ==
  ASSUME OneCheckpointer, TypeOK, ClockInv, [Next]_vars
  PROVE  ClockInv'
<1>. USE DEF ClockInv, NotBegun
<1>. /\ \A s \in Sessions : began[s] \in Nat
     /\ clock \in Nat /\ began \in [Sessions -> Nat]
     /\ \A a \in audit_archive : a.archived_at \in Nat
     /\ Checkpointers \subseteq Sessions /\ Writers \subseteq Sessions
  BY DEF TypeOK, Checkpoint, Sessions
<1>1. ASSUME NEW s \in Sessions, Begin(s)
      PROVE  ClockInv'
  <2>1. began' = [began EXCEPT ![s] = clock + 1] /\ clock' = clock + 1
        /\ audit_archive' = audit_archive
    BY <1>1 DEF Begin
  <2>. QED
    BY <2>1
<1>2. ASSUME NEW s \in Sessions, began' = [began EXCEPT ![s] = 0], clock' = clock,
             audit_archive' \subseteq audit_archive
      PROVE  ClockInv'
  BY <1>2
<1>3. ASSUME NEW c \in Checkpointers, NEW a, a.archived_at = began[c],
             began' = [began EXCEPT ![c] = 0], clock' = clock,
             audit_archive' = audit_archive \cup {a}
      PROVE  ClockInv'
  <2>1. \A d \in Checkpointers : began'[d] = 0
    BY <1>3 DEF OneCheckpointer
  <2>2. \A s \in Sessions : began'[s] <= clock
    BY <1>3
  <2>. QED
    BY <1>3, <2>1, <2>2
<1>4. ASSUME NEW w \in Writers, LogAccess(w)
      PROVE  ClockInv'
  BY <1>4, <1>2 DEF LogAccess
<1>5. ASSUME NEW c \in Checkpointers, Prune(c)
      PROVE  ClockInv'
  BY <1>5, <1>3 DEF Prune, PruneCheckpoint
<1>6. ASSUME NEW c \in Checkpointers, ContinuityReset(c)
      PROVE  ClockInv'
  BY <1>6, <1>3 DEF ContinuityReset, ResetCheckpoint
<1>7. ASSUME NEW c \in Checkpointers, PruneNothing(c) \/ GenesisReset(c)
      PROVE  ClockInv'
  BY <1>7, <1>2 DEF PruneNothing, GenesisReset
<1>8. ASSUME NEW s \in Sessions, Rollback(s)
      PROVE  ClockInv'
  BY <1>8, <1>2 DEF Rollback
<1>9. CASE Damage \/ UNCHANGED vars
  BY <1>9 DEF Damage, vars
<1>. QED
  BY <1>1, <1>4, <1>5, <1>6, <1>7, <1>8, <1>9 DEF Next

LEMMA SeedLogAccess ==
  ASSUME HonestInv, NEW w \in Writers, LogAccess(w)
  PROVE  SeedInv'
<1>1. PICK payload \in Payloads :
        agent_access_log' = agent_access_log \cup {TriggerRow(payload, began[w])}
  BY DEF LogAccess
<1>. DEFINE row == TriggerRow(payload, began[w])
<1>2. UNCHANGED <<audit_archive, damages>>
  BY DEF LogAccess
<1>3. ~Damaged(row)
  BY DEF Damaged, TriggerRow
<1>4. row.prev_hash = audit_tail.last_entry_hash /\ row.id = audit_tail.last_entry_id + 1
  BY DEF TriggerRow
<1>. HIDE DEF row
<1>5. \A r \in agent_access_log : ~(row.id <= r.id)
  BY <1>4 DEF HonestInv, TypeOK, Row, LinkInv, ChainLinked
<1>6. ASSUME Sound PROVE SeedLinks'
  <2>1. SeedLinks
    BY <1>6 DEF HonestInv, SeedInv
  <2>2. agent_access_log' # {}
    BY <1>1
  <2>3. CASE agent_access_log = {}
    <3>1. row.prev_hash = ArchiveSeed(audit_archive)
      BY <1>4, <2>1, <2>3 DEF SeedLinks
    <3>. QED
      BY <3>1, <2>2, <2>3, <1>1, <1>2 DEF SeedLinks, row
  <2>4. CASE agent_access_log # {}
    <3>1. \A r \in agent_access_log' :
            (\A q \in agent_access_log' : r.id <= q.id) => r \in agent_access_log
      BY <1>1, <1>5, <2>4 DEF row
    <3>2. agent_access_log \subseteq agent_access_log'
      BY <1>1
    <3>. QED
      BY <3>1, <3>2, <2>1, <2>2, <1>2 DEF SeedLinks
  <2>. QED
    BY <2>3, <2>4
<1>7. Sound' <=> Sound
  BY <1>2 DEF Sound
<1>8. damages' = 0 => \A r \in agent_access_log' : ~Damaged(r)
  BY <1>1, <1>2, <1>3 DEF HonestInv, SeedInv, row
<1>9. (\A r \in agent_access_log : ~Damaged(r))' <=> \A r \in agent_access_log' : ~Damaged(r)
  BY DEF Damaged
<1>. QED
  BY <1>2, <1>6, <1>7, <1>8, <1>9 DEF HonestInv, SeedInv

LEMMA SeedPrune ==
  ASSUME HonestInv, NEW c \in Checkpointers, Prune(c)
  PROVE  SeedInv'
<1>1. PICK last \in agent_access_log :
        /\ audit_archive' = audit_archive \cup {PruneCheckpoint(c, last)}
        /\ agent_access_log' = IF PrefixValid(last)
                               THEN agent_access_log \ Prefix(last)
                               ELSE agent_access_log
  BY DEF Prune
<1>2. UNCHANGED <<audit_tail, damages>>
  BY DEF Prune
<1>3. last \in Row /\ last.id \in Nat /\ audit_tail.last_entry_id \in Nat
  BY DEF HonestInv, TypeOK, Row
<1>. DEFINE a == PruneCheckpoint(c, last)
<1>4. began[c] \in Nat /\ began[c] # NotBegun
  BY DEF Prune, HonestInv, TypeOK, Sessions
<1>5. PrefixValid(last) \in BOOLEAN
  BY DEF PrefixValid, ChainValid
<1>6. /\ a \in Checkpoint /\ a.archived_at = began[c] /\ a.last_verified_hash = last.entry_hash
      /\ a.is_reset = FALSE
  BY <1>3, <1>4, <1>5 DEF PruneCheckpoint, Checkpoint, Row
<1>7. a.chain_valid <=> PrefixValid(last)
  BY <1>5 DEF PruneCheckpoint
<1>8. \A b \in audit_archive : b.archived_at < a.archived_at
  BY <1>4, <1>6 DEF HonestInv, ClockInv
<1>. HIDE DEF a
<1>9. audit_archive' = audit_archive \cup {a}
  BY <1>1 DEF a
<1>10. ArchiveSeed(audit_archive') = last.entry_hash
  <2>1. audit_archive' \in SUBSET Checkpoint /\ a \in audit_archive'
        /\ \A b \in audit_archive' : b # a => b.archived_at < a.archived_at
    BY <1>6, <1>8, <1>9 DEF HonestInv, TypeOK
  <2>. QED
    BY <2>1, <1>6, LatestCheckpoint
<1>11. Sound' <=> Sound /\ PrefixValid(last)
  BY <1>6, <1>7, <1>9 DEF Sound
<1>12. ASSUME PrefixValid(last) PROVE SeedLinks'
  <2>1. agent_access_log' = agent_access_log \ Prefix(last)
    BY <1>1, <1>12
  <2>2. agent_access_log' = {} => last.entry_hash = audit_tail.last_entry_hash
    <3>. SUFFICES ASSUME agent_access_log' = {}
                  PROVE  last.id = audit_tail.last_entry_id
      BY DEF HonestInv, LinkInv, ChainLinked
    <3>1. last.id <= audit_tail.last_entry_id
      BY DEF HonestInv, LinkInv, ChainLinked
    <3>2. ASSUME last.id < audit_tail.last_entry_id
          PROVE  FALSE
      <4>1. last.id + 1 \in last.id..audit_tail.last_entry_id
        BY <3>2, <1>3
      <4>2. PICK q \in agent_access_log : q.id = last.id + 1
        BY <4>1 DEF HonestInv, LinkInv, ChainLinked
      <4>. QED
        BY <4>2, <1>3, <2>1 DEF Prefix
    <3>. QED
      BY <3>1, <3>2, <1>3
  <2>3. ASSUME NEW r \in agent_access_log', \A q \in agent_access_log' : r.id <= q.id
        PROVE  r.prev_hash = last.entry_hash
    <3>1. PICK o \in agent_access_log' :
            /\ o.id = last.id + 1
            /\ o.prev_hash = last.entry_hash
            /\ \A q \in agent_access_log' : o.id <= q.id
      BY <2>1, AfterPrefix DEF HonestInv
    <3>2. r.id = o.id
      BY <2>3, <3>1, <2>1 DEF HonestInv, TypeOK, Row
    <3>. QED
      BY <3>1, <3>2, <2>1 DEF HonestInv, LinkInv, ChainLinked
  <2>. QED
    BY <1>2, <1>10, <2>2, <2>3 DEF SeedLinks
<1>13. ASSUME damages = 0 PROVE PrefixValid(last) /\ \A r \in agent_access_log' : ~Damaged(r)
  <2>1. /\ TypeOK /\ LinkInv /\ SeedLinks
        /\ \A r \in agent_access_log : ~Damaged(r)
    BY <1>13 DEF HonestInv, SeedInv
  <2>2. Breaks(Prefix(last), ArchiveSeed(audit_archive)) = {r \in Prefix(last) : Damaged(r)}
    BY <2>1, <1>3, BreaksAreDamaged, PrefixesAreRanges
  <2>3. last \in Prefix(last) /\ Prefix(last) \subseteq agent_access_log
    BY <1>3 DEF Prefix
  <2>4. PrefixValid(last)
    BY <2>1, <2>2, <2>3 DEF PrefixValid, ChainValid, SeedMismatch
  <2>. QED
    BY <2>1, <2>4, <1>1
<1>14. (\A r \in agent_access_log : ~Damaged(r))' <=> \A r \in agent_access_log' : ~Damaged(r)
  BY DEF Damaged
<1>. QED
  BY <1>2, <1>11, <1>12, <1>13, <1>14 DEF HonestInv, SeedInv

LEMMA SeedContinuity ==
  ASSUME HonestInv, NEW c \in Checkpointers, ContinuityReset(c)
  PROVE  SeedInv'
<1>. DEFINE a == ResetCheckpoint(c)
<1>1. began[c] \in Nat /\ began[c] # NotBegun
  BY DEF ContinuityReset, HonestInv, TypeOK, Sessions
<1>2. a \in Checkpoint
  <2>1. TriggerRow(ResetPayload, began[c]) \in Row
    BY TriggerRowType DEF HonestInv, Sessions
  <2>. QED
    BY <2>1, <1>1 DEF ResetCheckpoint, Checkpoint, Row
<1>3. a.is_reset /\ \A b \in audit_archive : b.archived_at < a.archived_at
  BY <1>1 DEF HonestInv, ClockInv, ResetCheckpoint
<1>4. /\ audit_archive' = audit_archive \cup {a}
      /\ agent_access_log' = {}
      /\ audit_tail'.last_entry_hash = a.last_verified_hash
      /\ damages' = damages
  BY DEF ContinuityReset
<1>. HIDE DEF a
<1>5. audit_archive' \in SUBSET Checkpoint /\ a \in audit_archive'
      /\ \A b \in audit_archive' : b # a => b.archived_at < a.archived_at
  BY <1>2, <1>3, <1>4 DEF HonestInv, TypeOK
<1>6. ArchiveSeed(audit_archive') = a.last_verified_hash
  BY <1>5, LatestCheckpoint
<1>7. SeedLinks'
  BY <1>4, <1>6 DEF SeedLinks
<1>8. Sound' <=> Sound
  BY <1>3, <1>4 DEF Sound
<1>. QED
  BY <1>4, <1>7, <1>8 DEF HonestInv, SeedInv

\* An altered row keeps its id, its digest and the digest it continues.
LEMMA SeedDamage ==
  ASSUME HonestInv, Damage
  PROVE  SeedInv'
<1>1. PICK r \in agent_access_log, payload \in Payloads :
        agent_access_log' = (agent_access_log \ {r})
                              \cup {[r EXCEPT !.payload = payload]}
  BY DEF Damage
<1>. DEFINE d == [r EXCEPT !.payload = payload]
<1>2. d.id = r.id /\ d.prev_hash = r.prev_hash
  BY DEF HonestInv, TypeOK, Row
<1>3. UNCHANGED <<audit_archive, audit_tail>> /\ damages' # 0
  BY DEF Damage, HonestInv, TypeOK
<1>. HIDE DEF d
<1>4. agent_access_log' = (agent_access_log \ {r}) \cup {d}
  BY <1>1 DEF d
<1>5. Sound' <=> Sound
  BY <1>3 DEF Sound
<1>6. ASSUME SeedLinks PROVE SeedLinks'
  <2>1. ASSUME NEW o \in agent_access_log', \A q \in agent_access_log' : o.id <= q.id
        PROVE  o.prev_hash = ArchiveSeed(audit_archive)
    <3>1. \A q \in agent_access_log : o.id <= q.id
      BY <2>1, <1>2, <1>4
    <3>2. CASE o = d
      BY <3>1, <3>2, <1>2, <1>6 DEF SeedLinks
    <3>3. CASE o # d
      BY <3>1, <3>3, <1>4, <1>6 DEF SeedLinks
    <3>. QED
      BY <3>2, <3>3
  <2>. QED
    BY <2>1, <1>3, <1>4 DEF SeedLinks
<1>. QED
  BY <1>3, <1>5, <1>6 DEF HonestInv, SeedInv

LEMMA SeedStep ==
  ASSUME HonestInv, [Next]_vars
  PROVE  SeedInv'
<1>1. ASSUME UNCHANGED <<agent_access_log, audit_archive, audit_tail, damages>>
      PROVE  SeedInv'
  BY <1>1 DEF HonestInv, SeedInv, Sound, SeedLinks, Damaged
<1>2. ASSUME NEW s \in Sessions, Begin(s) \/ Rollback(s)
      PROVE  SeedInv'
  BY <1>1, <1>2 DEF Begin, Rollback
<1>3. ASSUME NEW c \in Checkpointers, PruneNothing(c)
      PROVE  SeedInv'
  BY <1>1, <1>3 DEF PruneNothing
<1>4. ASSUME NEW c \in Checkpointers, GenesisReset(c)
      PROVE  SeedInv'
  BY <1>4 DEF GenesisReset, SeedInv, Sound, SeedLinks, ArchiveSeed
<1>5. CASE UNCHANGED vars
  BY <1>1, <1>5 DEF vars
<1>. QED
  BY <1>2, <1>3, <1>4, <1>5, SeedLogAccess, SeedPrune, SeedContinuity, SeedDamage DEF Next

LEMMA HonestInvariant ==
  ASSUME OneCheckpointer
  PROVE  /\ Init => HonestInv
         /\ HonestInv /\ [Next]_vars => HonestInv'
BY TypeInit, LinkInit, HonestInit, TypeStep, LinkStep, ClockStep, SeedStep DEF HonestInv

\* With one checkpointing session, pb_verify_audit_chain() over the whole log
\* reports valid=true in every state no altered row was part of, after any
\* history of inserts, prunes and resets (no false alarm).
THEOREM HonestChainVerifies ==
  ASSUME OneCheckpointer
  PROVE  Spec => []HonestChainAccepted
BY HonestInvariant, HonestImpliesAccepted, PTL DEF Spec

\* The walk of pb_verify_audit_chain_tail begins at an id, and it is one of a live row or
\* there is nothing before it.
LEMMA TailStartType ==
  ASSUME TypeOK, LinkInv
  PROVE  /\ TailStart(agent_access_log) \in Nat
         /\ TailStart(agent_access_log) > 1 =>
              \E r \in agent_access_log : r.id >= TailStart(agent_access_log)
<1>1. \A r \in agent_access_log : r.id \in Nat
  BY DEF TypeOK, Row
<1>2. CASE \E r \in agent_access_log : IsNewest(r, agent_access_log) /\ r.id >= TailRows
  <2>1. PICK r \in agent_access_log : IsNewest(r, agent_access_log) /\ r.id >= TailRows
    BY <1>2
  <2>2. \A q \in agent_access_log : IsNewest(q, agent_access_log) => q = r
    BY <2>1, <1>1 DEF IsNewest, LinkInv, ChainLinked
  <2>3. (CHOOSE q \in agent_access_log : IsNewest(q, agent_access_log)) = r
    BY <2>1, <2>2
  <2>4. TailStart(agent_access_log) = r.id - TailRows + 1
    BY <1>2, <2>3 DEF TailStart
  <2>. QED
    BY <2>1, <2>4, <1>1, TailAssumption
<1>3. CASE ~\E r \in agent_access_log : IsNewest(r, agent_access_log) /\ r.id >= TailRows
  BY <1>3 DEF TailStart
<1>. QED
  BY <1>2, <1>3

\* No walk over an honest log meets a break, wherever it begins and ends.
LEMMA HonestWalk ==
  ASSUME HonestInv, damages = 0, NEW s \in Nat, NEW e \in Nat
  PROVE  Breaks(Range(agent_access_log, s, e),
                StartSeed(agent_access_log, audit_archive, s)) = {}
<1>1. TypeOK /\ LinkInv /\ SeedLinks /\ \A r \in agent_access_log : ~Damaged(r)
  BY DEF HonestInv, SeedInv
<1>2. Range(agent_access_log, s, e) \subseteq agent_access_log
  BY DEF Range
<1>. QED
  BY <1>1, <1>2, BreaksAreDamaged

\* The range without an end.
LEMMA OpenRange ==
  ASSUME TypeOK, LinkInv, NEW s \in Nat
  PROVE  {r \in agent_access_log : r.id >= s}
           = Range(agent_access_log, s, audit_tail.last_entry_id)
<1>1. \A r \in agent_access_log : r.id \in Nat /\ r.id <= audit_tail.last_entry_id
  BY DEF TypeOK, Row, LinkInv, ChainLinked
<1>. QED
  BY <1>1 DEF Range

LEMMA HonestImpliesRanges == HonestInv => HonestRangesAccepted
<1>. SUFFICES ASSUME HonestInv, damages = 0
              PROVE  /\ \A start, end \in 0..(MaxTime + 1) :
                          Range(agent_access_log, start, end) # {} \/ start > 1
                            => VerifyRange(start, end)
                     /\ VerifyTail
  BY DEF HonestRangesAccepted
<1>1. TypeOK /\ LinkInv /\ SeedLinks /\ audit_tail.last_entry_id \in Nat
  BY DEF HonestInv, SeedInv, TypeOK
<1>2. ASSUME NEW start \in 0..(MaxTime + 1), NEW end \in 0..(MaxTime + 1),
             Range(agent_access_log, start, end) # {} \/ start > 1
      PROVE  VerifyRange(start, end)
  <2>1. start \in Nat /\ end \in Nat
    BY BoundsAssumption
  <2>2. Breaks(Range(agent_access_log, start, end),
               StartSeed(agent_access_log, audit_archive, start)) = {}
    BY <2>1, HonestWalk
  <2>3. ~SeedMismatch(Range(agent_access_log, start, end),
                      StartSeed(agent_access_log, audit_archive, start),
                      start <= 1, audit_tail.last_entry_hash)
    BY <2>1, <1>2 DEF SeedMismatch
  <2>. QED
    BY <2>2, <2>3 DEF VerifyRange, ChainValid
<1>3. VerifyTail
  <2>1. PICK start \in Nat : start = TailStart(agent_access_log)
    BY <1>1, TailStartType
  <2>2. PICK rows : rows = {r \in agent_access_log : r.id >= start}
    OBVIOUS
  <2>3. Breaks(rows, StartSeed(agent_access_log, audit_archive, start)) = {}
    BY <2>2, <1>1, OpenRange, HonestWalk
  <2>4. ASSUME start <= 1, rows = {}
        PROVE  audit_tail.last_entry_hash = StartSeed(agent_access_log, audit_archive, start)
    <3>1. agent_access_log = {}
      BY <2>2, <2>4, <1>1 DEF TypeOK, Row, LinkInv, ChainLinked
    <3>2. StartSeed(agent_access_log, audit_archive, start) = ArchiveSeed(audit_archive)
      BY <3>1 DEF StartSeed
    <3>. QED
      BY <3>1, <3>2, <1>1 DEF SeedLinks
  <2>5. ~SeedMismatch(rows, StartSeed(agent_access_log, audit_archive, start),
                      start <= 1, audit_tail.last_entry_hash)
    BY <2>4 DEF SeedMismatch
  <2>6. ChainValid(rows, StartSeed(agent_access_log, audit_archive, start),
                   start <= 1, audit_tail.last_entry_hash)
    BY <2>3, <2>5 DEF ChainValid
  <2>. QED
    BY <2>1, <2>2, <2>6 DEF VerifyTail
<1>. QED
  BY <1>2, <1>3

\* The same for every range an administrator may ask for that has a row or does not begin
\* at the head, and for the last rows, whatever TailRows: pb_verify_audit_chain(start, end)
\* and pb_verify_audit_chain_tail(n) raise no false alarm on an honest log.
THEOREM HonestRangesVerify ==
  ASSUME OneCheckpointer
  PROVE  Spec => []HonestRangesAccepted
BY HonestInvariant, HonestImpliesRanges, PTL DEF Spec

-----------------------------------------------------------------------------
(* An altered row is found *)

\* Of some natural numbers one is the least.
LEMMA LeastNatural ==
  ASSUME NEW T \in SUBSET Nat, T # {}
  PROVE  \E m \in T : \A n \in T : m <= n
<1>1. PICK m \in T : \A n \in T : ~(<<n, m>> \in OpToRel(<, Nat))
  BY NatLessThanWellFounded, WFMin
<1>2. \A n \in T : ~(n < m)
  BY <1>1 DEF OpToRel
<1>. QED
  BY <1>2

\* And one is the greatest, if they have a bound.
LEMMA GreatestNatural ==
  ASSUME NEW T \in SUBSET Nat, T # {}, NEW bound \in Nat, \A n \in T : n <= bound
  PROVE  \E m \in T : \A n \in T : n <= m
<1>1. PICK D : D = {bound - n : n \in T}
  OBVIOUS
<1>2. D \in SUBSET Nat /\ D # {}
  <2>1. \A n \in T : bound - n \in Nat
    OBVIOUS
  <2>2. D \in SUBSET Nat
    BY <1>1, <2>1
  <2>3. PICK n \in T : TRUE
    OBVIOUS
  <2>4. bound - n \in D
    BY <1>1
  <2>. QED
    BY <2>2, <2>4
<1>3. PICK d \in D : \A n \in D : d <= n
  BY <1>2, LeastNatural
<1>4. PICK m \in T : d = bound - m
  BY <1>1
<1>5. ASSUME NEW n \in T PROVE n <= m
  <2>1. d <= bound - n
    BY <1>1, <1>3
  <2>. QED
    BY <2>1, <1>4
<1>. QED
  BY <1>5

\* So of some rows one is the oldest.
LEMMA OldestRow ==
  ASSUME NEW rows, rows # {}, \A r \in rows : r.id \in Nat
  PROVE  \E r \in rows : \A q \in rows : r.id <= q.id
<1>1. PICK T : T = {r.id : r \in rows}
  OBVIOUS
<1>2. T \in SUBSET Nat /\ T # {}
  BY <1>1
<1>3. PICK m \in T : \A n \in T : m <= n
  BY <1>2, LeastNatural
<1>4. PICK r \in rows : r.id = m
  BY <1>1
<1>. QED
  BY <1>1, <1>3, <1>4

LEMMA HonestImpliesLocated == HonestInv => DamageLocated
<1>. SUFFICES ASSUME HonestInv, Sound, {r \in agent_access_log : Damaged(r)} # {}
              PROVE  \E r \in {q \in agent_access_log : Damaged(q)} :
                       /\ \A q \in {o \in agent_access_log : Damaged(o)} : r.id <= q.id
                       /\ r.id = FirstInvalid(agent_access_log, ArchiveSeed(audit_archive),
                                             TRUE, audit_tail.last_entry_hash)
  BY DEF DamageLocated, Sound
<1>1. PICK altered : altered = {r \in agent_access_log : Damaged(r)}
  OBVIOUS
<1>2. TypeOK /\ LinkInv /\ SeedLinks /\ audit_tail.last_entry_id \in Nat
  BY DEF HonestInv, SeedInv, TypeOK
<1>3. Breaks(agent_access_log, ArchiveSeed(audit_archive)) = altered
  BY <1>1, <1>2, BreaksAreDamaged, PrefixesAreRanges
<1>4. \A r \in altered : r.id \in Nat
  BY <1>1, <1>2 DEF TypeOK, Row
<1>5. PICK r \in altered : \A q \in altered : r.id <= q.id
  BY <1>1, <1>4, OldestRow
<1>6. \A q \in altered : (\A o \in altered : q.id <= o.id) => q = r
  <2>1. ASSUME NEW q \in altered, \A o \in altered : q.id <= o.id
        PROVE  q.id = r.id
    BY <2>1, <1>4, <1>5
  <2>. QED
    BY <2>1, <1>1, <1>2 DEF LinkInv, ChainLinked
<1>7. (CHOOSE q \in altered : \A o \in altered : q.id <= o.id) = r
  BY <1>5, <1>6
<1>8. FirstInvalid(agent_access_log, ArchiveSeed(audit_archive), TRUE,
                   audit_tail.last_entry_hash) = r.id
  BY <1>3, <1>7 DEF FirstInvalid
<1>. QED
  BY <1>1, <1>5, <1>8

\* While no prune has refused to delete, pb_verify_audit_chain() names the oldest altered
\* row, however many were altered, and before or after whatever prunes and resets.
THEOREM DamageAlwaysLocated ==
  ASSUME OneCheckpointer
  PROVE  Spec => []DamageLocated
BY HonestInvariant, HonestImpliesLocated, PTL DEF Spec

-----------------------------------------------------------------------------
(* What a step may never remove *)

LEMMA DamageKeptStep ==
  ASSUME TypeOK, [Next]_vars, NEW r \in agent_access_log, Damaged(r)
  PROVE  (\E q \in agent_access_log' : q.id = r.id) \/ audit_tail'.last_entry_id = 0
<1>1. ASSUME NEW w \in Writers, LogAccess(w)
      PROVE  r \in agent_access_log'
  BY <1>1 DEF LogAccess
<1>2. ASSUME NEW c \in Checkpointers, Prune(c)
      PROVE  r \in agent_access_log'
  <2>1. PICK last \in agent_access_log :
          agent_access_log' = IF PrefixValid(last)
                              THEN agent_access_log \ Prefix(last)
                              ELSE agent_access_log
    BY <1>2 DEF Prune
  <2>2. ASSUME PrefixValid(last), r \in Prefix(last)
        PROVE  FALSE
    <3>1. r \notin Breaks(Prefix(last), ArchiveSeed(audit_archive))
      BY <2>2 DEF PrefixValid, ChainValid
    <3>. QED
      BY <3>1, <2>2 DEF Breaks, Damaged
  <2>. QED
    BY <2>1, <2>2
<1>3. ASSUME NEW c \in Checkpointers, ContinuityReset(c) \/ GenesisReset(c)
      PROVE  audit_tail'.last_entry_id = 0
  BY <1>3 DEF ContinuityReset, GenesisReset
<1>4. CASE Damage
  <2>1. PICK o \in agent_access_log, payload \in Payloads :
          agent_access_log' = (agent_access_log \ {o})
                                \cup {[o EXCEPT !.payload = payload]}
    BY <1>4 DEF Damage
  <2>2. [o EXCEPT !.payload = payload].id = o.id
    BY DEF TypeOK, Row
  <2>. QED
    BY <2>1, <2>2
<1>5. CASE \/ \E s \in Sessions : Begin(s) \/ Rollback(s)
           \/ \E c \in Checkpointers : PruneNothing(c)
           \/ UNCHANGED vars
  BY <1>5 DEF Begin, Rollback, PruneNothing, vars
<1>. QED
  BY <1>1, <1>2, <1>3, <1>4, <1>5 DEF Next

\* The prune is fail-closed: an altered row stays in the live table until a
\* forced reset empties it, for any number of checkpointing sessions.
THEOREM DamageIsNeverPruned == Spec => DamageNeverPruned
<1>1. TypeOK /\ [Next]_vars =>
        [\A r \in agent_access_log :
           Damaged(r) => \/ \E q \in agent_access_log' : q.id = r.id
                         \/ audit_tail'.last_entry_id = 0]_vars
  BY DamageKeptStep
<1>. QED
  BY <1>1, TypeCorrect, PTL DEF Spec, DamageNeverPruned

LEMMA RemovalStep ==
  ASSUME TypeOK, [Next]_vars, audit_archive' # {}, NEW r \in agent_access_log,
         ChainLinked,
         ~\E a \in audit_archive' \ audit_archive : r.id <= a.last_entry_id,
         \A a \in audit_archive, s \in Checkpointers :
           began[s] # NotBegun => a.archived_at # began[s]
  PROVE  \E q \in agent_access_log' : q.id = r.id
<1>1. ASSUME NEW w \in Writers, LogAccess(w)
      PROVE  r \in agent_access_log'
  BY <1>1 DEF LogAccess
<1>2. ASSUME NEW c \in Checkpointers, Prune(c)
      PROVE  r \in agent_access_log'
  <2>1. PICK last \in agent_access_log :
          /\ audit_archive' = audit_archive \cup {PruneCheckpoint(c, last)}
          /\ agent_access_log' = IF PrefixValid(last)
                                 THEN agent_access_log \ Prefix(last)
                                 ELSE agent_access_log
    BY <1>2 DEF Prune
  <2>. DEFINE a == PruneCheckpoint(c, last)
  <2>2. a.archived_at = began[c] /\ a.last_entry_id = last.id
    BY DEF PruneCheckpoint
  <2>. HIDE DEF a
  <2>3. a \in audit_archive' \ audit_archive
    BY <1>2, <2>1, <2>2 DEF a, Prune
  <2>4. r \notin Prefix(last)
    BY <2>2, <2>3 DEF Prefix
  <2>. QED
    BY <2>1, <2>4
<1>3. ASSUME NEW c \in Checkpointers, ContinuityReset(c)
      PROVE  FALSE
  <2>. DEFINE a == ResetCheckpoint(c)
  <2>1. a.archived_at = began[c] /\ a.last_entry_id = audit_tail.last_entry_id + 1
    BY DEF ResetCheckpoint, TriggerRow
  <2>. HIDE DEF a
  <2>2. a \in audit_archive' \ audit_archive
    BY <1>3, <2>1 DEF a, ContinuityReset
  <2>3. r.id <= a.last_entry_id
    BY <2>1 DEF TypeOK, Row, ChainLinked
  <2>. QED
    BY <2>2, <2>3
<1>4. ASSUME NEW c \in Checkpointers, GenesisReset(c)
      PROVE  FALSE
  BY <1>4 DEF GenesisReset
<1>5. CASE Damage
  <2>1. PICK o \in agent_access_log, payload \in Payloads :
          agent_access_log' = (agent_access_log \ {o})
                                \cup {[o EXCEPT !.payload = payload]}
    BY <1>5 DEF Damage
  <2>2. [o EXCEPT !.payload = payload].id = o.id
    BY DEF TypeOK, Row
  <2>. QED
    BY <2>1, <2>2
<1>6. CASE \/ \E s \in Sessions : Begin(s) \/ Rollback(s)
           \/ \E c \in Checkpointers : PruneNothing(c)
           \/ UNCHANGED vars
  BY <1>6 DEF Begin, Rollback, PruneNothing, vars
<1>. QED
  BY <1>1, <1>2, <1>3, <1>4, <1>5, <1>6 DEF Next

\* A row leaves the live table only together with the commit of a checkpoint
\* that covers it, or in a genesis reset.
THEOREM RemovalAlwaysCheckpointed ==
  ASSUME OneCheckpointer
  PROVE  Spec => RemovalIsCheckpointed
<1>1. TypeOK /\ ChainLinked /\ ClockInv /\ [Next]_vars =>
        [\A r \in agent_access_log :
           \/ \E q \in agent_access_log' : q.id = r.id
           \/ \E a \in audit_archive' \ audit_archive : r.id <= a.last_entry_id
           \/ audit_archive' = {}]_vars
  <2>1. ASSUME TypeOK, ClockInv
        PROVE  \A a \in audit_archive, s \in Checkpointers :
                 began[s] # NotBegun => a.archived_at # began[s]
    BY <2>1 DEF TypeOK, ClockInv, Checkpoint, Sessions
  <2>. QED
    BY <2>1, RemovalStep
<1>2. TypeOK /\ ClockInv /\ [Next]_vars => ClockInv'
  BY ClockStep
<1>3. Init => ClockInv
  BY HonestInit
<1>. QED
  BY <1>1, <1>2, <1>3, TypeCorrect, ChainAlwaysLinked, PTL DEF Spec, RemovalIsCheckpointed

-----------------------------------------------------------------------------
(* AuditChain implements AuditLedger *)

\* How much was dropped, read off the oldest live row.
LEMMA DroppedOf ==
  ASSUME TypeOK, LinkInv, NEW r \in agent_access_log,
         \A q \in agent_access_log : r.id <= q.id
  PROVE  Dropped = Len(r.prev_hash)
<1>1. \A o \in agent_access_log : (\A q \in agent_access_log : o.id <= q.id) => o = r
  <2>. SUFFICES ASSUME NEW o \in agent_access_log,
                       \A q \in agent_access_log : o.id <= q.id
                PROVE  o.id = r.id
    BY DEF LinkInv, ChainLinked
  <2>. QED
    BY DEF TypeOK, Row
<1>2. (CHOOSE o \in agent_access_log : \A q \in agent_access_log : o.id <= q.id) = r
  BY <1>1
<1>. QED
  BY <1>2 DEF Dropped

\* The same reading after a step.
LEMMA DroppedNext ==
  ASSUME TypeOK', LinkInv', NEW r \in agent_access_log',
         \A q \in agent_access_log' : r.id <= q.id
  PROVE  Dropped' = Len(r.prev_hash)
<1>1. \A o \in agent_access_log' : (\A q \in agent_access_log' : o.id <= q.id) => o = r
  <2>. SUFFICES ASSUME NEW o \in agent_access_log',
                       \A q \in agent_access_log' : o.id <= q.id
                PROVE  o.id = r.id
    BY DEF LinkInv, ChainLinked
  <2>. QED
    BY DEF TypeOK, Row
<1>2. (CHOOSE o \in agent_access_log' : \A q \in agent_access_log' : o.id <= q.id) = r
  BY <1>1
<1>. QED
  BY <1>2 DEF Dropped

LEMMA RefineInit == Init => Ledger!LedgerInit
BY DEF Init, Ledger!LedgerInit, Dropped, Genesis

\* A trigger row makes the tail digest grow by one entry.
LEMMA TailGrows ==
  ASSUME TypeOK, NEW s \in Sessions, NEW payload \in Payloads \cup {ResetPayload},
         audit_tail'.last_entry_hash = TriggerRow(payload, began[s]).entry_hash
  PROVE  /\ Ledger!Grow
         /\ Len(audit_tail'.last_entry_hash) = Len(audit_tail.last_entry_hash) + 1
<1>. DEFINE e == [id |-> audit_tail.last_entry_id + 1, payload |-> payload,
                  created_at |-> began[s]]
            prev == audit_tail.last_entry_hash
<1>1. e \in Entry /\ prev \in Seq(Entry)
  BY DEF TypeOK, Entry, Digest
<1>2. audit_tail'.last_entry_hash = Append(prev, e)
  BY DEF TriggerRow, HashPayload
<1>. HIDE DEF e, prev
<1>3. /\ Append(prev, e) # <<>>
      /\ Len(Append(prev, e)) = Len(prev) + 1
      /\ Append(prev, e)[Len(prev) + 1] = e
  BY <1>1
<1>. QED
  BY <1>1, <1>2, <1>3 DEF Ledger!Grow, prev

LEMMA RefineLogAccess ==
  ASSUME TypeOK, LinkInv, TypeOK', LinkInv', NEW w \in Writers, LogAccess(w)
  PROVE  Ledger!Record
<1>1. PICK payload \in Payloads :
        /\ agent_access_log' = agent_access_log \cup {TriggerRow(payload, began[w])}
        /\ audit_tail' = [last_entry_hash |-> TriggerRow(payload, began[w]).entry_hash,
                          last_entry_id |-> TriggerRow(payload, began[w]).id]
  BY DEF LogAccess
<1>2. Ledger!Grow
  BY <1>1, TailGrows DEF Sessions
<1>. DEFINE row == TriggerRow(payload, began[w])
<1>3. row.prev_hash = audit_tail.last_entry_hash /\ row.id = audit_tail.last_entry_id + 1
  BY DEF TriggerRow
<1>4. row \in agent_access_log'
  BY <1>1
<1>5. agent_access_log' = agent_access_log \cup {row}
  BY <1>1
<1>. HIDE DEF row
<1>6. Dropped' = Dropped
  <2>1. CASE agent_access_log = {}
    <3>1. \A q \in agent_access_log' : row.id <= q.id
      BY <2>1, <1>4, <1>5 DEF TypeOK, Row
    <3>. QED
      BY <2>1, <3>1, <1>3, <1>4, DroppedNext DEF Dropped
  <2>2. CASE agent_access_log # {}
    <3>1. PICK r \in agent_access_log : \A q \in agent_access_log : r.id <= q.id
      BY <2>2 DEF LinkInv, HasOldest
    <3>2. r.id <= row.id
      BY <1>3 DEF LinkInv, ChainLinked, TypeOK, Row
    <3>3. r \in agent_access_log' /\ \A q \in agent_access_log' : r.id <= q.id
      BY <3>1, <3>2, <1>5
    <3>. QED
      BY <3>1, <3>3, DroppedOf, DroppedNext
  <2>. QED
    BY <2>1, <2>2
<1>. QED
  BY <1>2, <1>6 DEF Ledger!Record

LEMMA RefinePrune ==
  ASSUME TypeOK, LinkInv, TypeOK', LinkInv', NEW c \in Checkpointers, Prune(c)
  PROVE  [Ledger!LedgerNext]_(Ledger!ledgerVars)
<1>1. PICK last \in agent_access_log :
        agent_access_log' = IF PrefixValid(last)
                            THEN agent_access_log \ Prefix(last)
                            ELSE agent_access_log
  BY DEF Prune
<1>2. UNCHANGED audit_tail
  BY DEF Prune
<1>3. CASE ~PrefixValid(last)
  <2>1. agent_access_log' = agent_access_log
    BY <1>1, <1>3
  <2>2. Dropped' = Dropped
    BY <1>2, <2>1 DEF Dropped
  <2>. QED
    BY <1>2, <2>2 DEF Ledger!ledgerVars
<1>4. CASE PrefixValid(last)
  <2>1. agent_access_log' = agent_access_log \ Prefix(last)
    BY <1>1, <1>4
  <2>2. PICK old \in agent_access_log : \A q \in agent_access_log : old.id <= q.id
    BY DEF LinkInv, HasOldest
  <2>3. Dropped = Len(old.prev_hash)
    BY <2>2, DroppedOf
  <2>. DEFINE tailLen == Len(audit_tail.last_entry_hash)
  <2>4. /\ tailLen \in Nat /\ audit_tail.last_entry_id \in Nat
        /\ \A r \in agent_access_log :
             /\ r.id \in Nat /\ r.id <= audit_tail.last_entry_id
             /\ Len(r.prev_hash) \in Nat /\ Len(r.entry_hash) \in Nat
             /\ Len(r.prev_hash) + 1 = Len(r.entry_hash)
             /\ tailLen = Len(r.entry_hash) + (audit_tail.last_entry_id - r.id)
    <3>1. tailLen \in Nat /\ audit_tail.last_entry_id \in Nat
      BY DEF TypeOK, Digest
    <3>2. \A r \in agent_access_log :
            r.id \in Nat /\ Len(r.prev_hash) \in Nat /\ Len(r.entry_hash) \in Nat
      <4>. SUFFICES ASSUME NEW r \in agent_access_log
                    PROVE  r.id \in Nat /\ Len(r.prev_hash) \in Nat /\ Len(r.entry_hash) \in Nat
        OBVIOUS
      <4>1. r \in Row
        BY DEF TypeOK
      <4>2. r.id \in Nat /\ r.prev_hash \in Digest /\ r.entry_hash \in Digest
        BY <4>1 DEF Row
      <4>. QED
        BY <4>2 DEF Digest
    <3>3. \A r \in agent_access_log :
            /\ r.id <= audit_tail.last_entry_id
            /\ Len(r.prev_hash) + 1 = Len(r.entry_hash)
            /\ tailLen = Len(r.entry_hash) + (audit_tail.last_entry_id - r.id)
      BY DEF LinkInv, Lengths, ChainLinked
    <3>. QED
      BY <3>1, <3>2, <3>3
  <2>5. old.id <= last.id
    BY <2>2
  <2>6. Dropped' \in (Dropped + 1)..tailLen
    <3>1. CASE agent_access_log' = {}
      <4>1. Dropped' = tailLen
        BY <3>1, <1>2 DEF Dropped
      <4>. QED
        BY <4>1, <2>3, <2>4
    <3>2. CASE agent_access_log' # {}
      <4>1. PICK r \in agent_access_log' :
              r.id = last.id + 1 /\ \A o \in agent_access_log' : r.id <= o.id
        BY <3>2, <2>1, AfterPrefix
      <4>2. Dropped' = Len(r.prev_hash)
        BY <4>1, DroppedNext
      <4>3. r \in agent_access_log
        BY <2>1
      <4>4. /\ tailLen = Len(old.prev_hash) + 1 + (audit_tail.last_entry_id - old.id)
            /\ tailLen = Len(r.prev_hash) + 1 + (audit_tail.last_entry_id - r.id)
            /\ old.id < r.id /\ r.id <= audit_tail.last_entry_id
        BY <4>1, <4>3, <2>4, <2>5
      <4>5. /\ Len(old.prev_hash) \in Nat /\ Len(r.prev_hash) \in Nat /\ tailLen \in Nat
            /\ old.id \in Nat /\ r.id \in Nat /\ audit_tail.last_entry_id \in Nat
        BY <4>3, <2>4
      <4>6. Len(r.prev_hash) \in (Len(old.prev_hash) + 1)..tailLen
        <5>. HIDE DEF tailLen
        <5>. QED
          BY <4>4, <4>5
      <4>. QED
        BY <4>2, <4>6, <2>3
    <3>. QED
      BY <3>1, <3>2
  <2>7. Ledger!Drop
    BY <2>6, <1>2 DEF Ledger!Drop
  <2>. QED
    BY <2>7 DEF Ledger!LedgerNext
<1>. QED
  BY <1>3, <1>4

LEMMA RefineDamage ==
  ASSUME TypeOK, LinkInv, TypeOK', LinkInv', Damage
  PROVE  UNCHANGED Ledger!ledgerVars
<1>1. PICK r \in agent_access_log, payload \in Payloads :
        agent_access_log' = (agent_access_log \ {r})
                              \cup {[r EXCEPT !.payload = payload]}
  BY DEF Damage
<1>. DEFINE d == [r EXCEPT !.payload = payload]
<1>2. d.id = r.id /\ d.prev_hash = r.prev_hash
  BY DEF TypeOK, Row
<1>3. PICK o \in agent_access_log : \A q \in agent_access_log : o.id <= q.id
  BY DEF LinkInv, HasOldest
<1>. DEFINE n == IF o = r THEN d ELSE o
<1>4. n \in agent_access_log' /\ n.prev_hash = o.prev_hash
      /\ \A q \in agent_access_log' : n.id <= q.id
  BY <1>1, <1>2, <1>3
<1>5. Dropped' = Dropped
  <2>. HIDE DEF n
  <2>. QED
    BY <1>3, <1>4, DroppedOf, DroppedNext
<1>. QED
  BY <1>5 DEF Damage, Ledger!ledgerVars

LEMMA RefineStep ==
  ASSUME TypeOK, LinkInv, TypeOK', LinkInv', [Next]_vars
  PROVE  [Ledger!LedgerNext]_(Ledger!ledgerVars)
<1>1. ASSUME NEW c \in Checkpointers, ContinuityReset(c)
      PROVE  Ledger!Seal
  <2>1. /\ audit_tail'.last_entry_hash = TriggerRow(ResetPayload, began[c]).entry_hash
        /\ agent_access_log' = {}
    BY <1>1 DEF ContinuityReset, ResetCheckpoint
  <2>2. Ledger!Grow
    BY <2>1, TailGrows DEF Sessions
  <2>. QED
    BY <2>1, <2>2 DEF Ledger!Seal, Dropped
<1>2. ASSUME NEW c \in Checkpointers, GenesisReset(c)
      PROVE  Ledger!StartOver
  BY <1>2 DEF GenesisReset, Ledger!StartOver, Dropped, Genesis
<1>3. CASE \/ \E s \in Sessions : Begin(s) \/ Rollback(s)
           \/ \E c \in Checkpointers : PruneNothing(c)
           \/ UNCHANGED vars
  <2>1. UNCHANGED <<agent_access_log, audit_tail>>
    BY <1>3 DEF Begin, Rollback, PruneNothing, vars
  <2>2. Dropped' = Dropped
    BY <2>1 DEF Dropped
  <2>. QED
    BY <2>1, <2>2 DEF Ledger!ledgerVars
<1>. QED
  BY <1>1, <1>2, <1>3, RefineLogAccess, RefinePrune, RefineDamage
  DEF Next, Ledger!LedgerNext

\* The tables implement the abstract ledger: whatever the sessions interleave,
\* the log grows by whole entries, retention takes an oldest part and nothing
\* else, and only the two forced resets do more.
THEOREM ChainImplementsLedger == Spec => ImplementsLedger
<1>1. Spec => [](TypeOK /\ LinkInv)
  BY TypeInit, TypeStep, LinkInit, LinkStep, PTL DEF Spec
<1>2. TypeOK /\ LinkInv /\ (TypeOK /\ LinkInv)' /\ [Next]_vars
        => [Ledger!LedgerNext]_(Ledger!ledgerVars)
  BY RefineStep
<1>. QED
  BY <1>1, <1>2, RefineInit, PTL DEF Spec, ImplementsLedger, Ledger!LedgerSpec


-----------------------------------------------------------------------------
(* AuditStatus: a verification without a lock *)

\* The types of what the job has read and of the status row.
Jobs == [at : Points, start : Nat, seed : Digest, rows : SUBSET Row,
         valid : Verdicts \cup {Null}]

StatusTypes ==
  /\ job \in Jobs
  /\ audit_integrity_status \in [valid : Verdicts \cup {Null}, error : BOOLEAN]
  /\ errors \in 0..MaxErrors
  /\ overlap \subseteq Commits

HasRowFrom(start) == \E r \in agent_access_log : r.id >= start
HasRowAt(id) == \E r \in agent_access_log : r.id = id

\* What a job that no checkpoint has overlapped knows of an honest log: the row it began
\* with is still there, its seed is the one the verifier would take now, and a walk that
\* met no row was over an empty log.
JobKnows ==
  /\ job.at \in {"prev", "archive", "rows"} /\ job.start > 1 => HasRowFrom(job.start)
  /\ job.at = "prev" => job.start > 1
  /\ job.at = "archive" /\ job.start > 1 => ~HasRowAt(job.start - 1)
  /\ job.at = "rows" => job.seed = StartSeed(agent_access_log, audit_archive, job.start)
  /\ job.at = "tail" => /\ job.rows = {}
                        /\ job.seed = ArchiveSeed(audit_archive)
                        /\ agent_access_log = {} \/ "insert" \in overlap
  /\ job.at = "store" => job.valid = "true" \/ (job.rows = {} /\ "insert" \in overlap)

Quiet == damages = 0 /\ "checkpoint" \notin overlap

RefreshInv == HonestInv /\ StatusTypes /\ (Quiet => JobKnows)

\* The seed the archive gives is one of its digests, or the genesis.
LEMMA ArchiveSeedType ==
  ASSUME HonestInv
  PROVE  ArchiveSeed(audit_archive) \in Digest
<1>1. CASE audit_archive = {}
  BY <1>1 DEF ArchiveSeed, Digest, Genesis
<1>2. CASE audit_archive # {}
  <2>1. PICK T : T = {a.archived_at : a \in audit_archive}
    OBVIOUS
  <2>2. T \in SUBSET Nat /\ T # {} /\ clock \in Nat /\ \A n \in T : n <= clock
    BY <1>2, <2>1 DEF HonestInv, TypeOK, Checkpoint, ClockInv
  <2>3. PICK m \in T : \A n \in T : n <= m
    BY <2>2, GreatestNatural
  <2>4. PICK a \in audit_archive : a.archived_at = m
    BY <2>1
  <2>5. \A b \in audit_archive : b.archived_at <= a.archived_at
    BY <2>1, <2>3, <2>4
  <2>6. (CHOOSE o \in audit_archive : \A b \in audit_archive : b.archived_at <= o.archived_at)
          \in audit_archive
    BY <2>5
  <2>. QED
    BY <1>2, <2>6 DEF ArchiveSeed, HonestInv, TypeOK, Checkpoint
<1>. QED
  BY <1>1, <1>2

LEMMA StatusInitTypes == StatusInit => StatusTypes
BY ErrorsAssumption
   DEF StatusInit, StatusTypes, Jobs, NoJob, Points, Digest, Genesis, Verdicts, Commits

LEMMA StatusStepTypes ==
  ASSUME HonestInv, StatusTypes, [StatusNext]_allVars
  PROVE  StatusTypes'
<1>. USE DEF StatusTypes
<1>0. /\ NoJob \in Jobs
      /\ job.at \in Points /\ job.start \in Nat /\ job.seed \in Digest
      /\ job.rows \subseteq Row /\ job.valid \in Verdicts \cup {Null}
  BY DEF NoJob, Jobs, Points, Digest, Genesis
<1>1. TypeOK /\ LinkInv /\ audit_tail.last_entry_hash \in Digest
  BY DEF HonestInv, TypeOK
<1>2. CASE ReadStart
  <2>1. PICK start : start = TailStart(agent_access_log)
    OBVIOUS
  <2>2. PICK at \in {"prev", "archive"} :
          job' = [NoJob EXCEPT !.start = start, !.at = at]
    BY <1>2, <2>1 DEF ReadStart
  <2>3. start \in Nat
    BY <1>1, <2>1, TailStartType
  <2>4. job' \in Jobs
    BY <1>0, <2>2, <2>3 DEF Jobs, Points
  <2>. QED
    BY <1>2, <2>4 DEF ReadStart
<1>3. CASE ReadPrevRow
  <2>1. \/ \E q \in agent_access_log : job' = [job EXCEPT !.at = "rows", !.seed = q.entry_hash]
        \/ job' = [job EXCEPT !.at = "archive"]
    BY <1>3 DEF ReadPrevRow
  <2>2. \A q \in agent_access_log : q.entry_hash \in Digest
    BY <1>1 DEF TypeOK, Row
  <2>3. job' \in Jobs
    BY <2>1, <2>2 DEF Jobs, Points
  <2>. QED
    BY <1>3, <2>3 DEF ReadPrevRow
<1>4. CASE ReadArchive
  <2>1. job' = [job EXCEPT !.at = "rows", !.seed = ArchiveSeed(audit_archive)]
    BY <1>4 DEF ReadArchive
  <2>2. ArchiveSeed(audit_archive) \in Digest
    BY <1>1, ArchiveSeedType DEF HonestInv
  <2>3. job' \in Jobs
    BY <2>1, <2>2 DEF Jobs, Points
  <2>. QED
    BY <1>4, <2>3 DEF ReadArchive
<1>5. CASE ReadRows
  <2>1. PICK rows : rows = RowsFrom(job.start)
    OBVIOUS
  <2>2. PICK at \in {"tail", "store"} :
          at = IF rows = {} /\ job.start <= 1 THEN "tail" ELSE "store"
    OBVIOUS
  <2>3. PICK valid \in Verdicts : valid = Verdict(Breaks(rows, job.seed) = {})
    BY DEF Verdict, Verdicts
  <2>4. job' = [job EXCEPT !.rows = rows, !.at = at, !.valid = valid]
    BY <1>5, <2>1, <2>2, <2>3, Zenon DEF ReadRows
  <2>5. rows \subseteq Row
    BY <2>1, <1>1 DEF RowsFrom, TypeOK
  <2>6. job' \in Jobs
    BY <2>4, <2>5 DEF Jobs, Points
  <2>. QED
    BY <1>5, <2>6 DEF ReadRows
<1>6. CASE ReadTail
  <2>1. PICK valid \in Verdicts : job' = [job EXCEPT !.at = "store", !.valid = valid]
    BY <1>6 DEF ReadTail, Verdict, Verdicts
  <2>2. job' \in Jobs
    BY <2>1 DEF Jobs, Points
  <2>. QED
    BY <1>6, <2>2 DEF ReadTail
<1>7. CASE StoreResult
  <2>1. Upserted(job.valid) \in [valid : Verdicts \cup {Null}, error : BOOLEAN]
    BY <1>0 DEF Upserted
  <2>. QED
    BY <1>0, <1>7, <2>1 DEF StoreResult
<1>8. CASE RefreshFails \/ WorkerRestarts
  <2>1. job' = NoJob \/ job' = [NoJob EXCEPT !.at = "failed"]
    BY <1>8 DEF RefreshFails, WorkerRestarts
  <2>2. job' \in Jobs
    BY <1>0, <2>1 DEF Jobs, Points
  <2>3. errors' \in 0..MaxErrors
    BY <1>8, ErrorsAssumption DEF RefreshFails, WorkerRestarts
  <2>. QED
    BY <1>8, <2>2, <2>3 DEF RefreshFails, WorkerRestarts
<1>9. CASE StoreError
  <2>1. UpsertedError \in [valid : Verdicts \cup {Null}, error : BOOLEAN]
    BY DEF UpsertedError
  <2>. QED
    BY <1>0, <1>9, <2>1 DEF StoreError
<1>10. CASE ChainStep
  BY <1>10 DEF ChainStep, Commits
<1>11. CASE UNCHANGED allVars
  BY <1>11 DEF allVars, statusVars
<1>. QED
  BY <1>2, <1>3, <1>4, <1>5, <1>6, <1>7, <1>8, <1>9, <1>10, <1>11
     DEF StatusNext, JobStep, RefreshStep

\* A step of the chain that is no insert, touches neither the archive nor the tail and
\* leaves the log honest, leaves it as it was: every checkpoint is a new one.
LEMMA QuietSteps ==
  ASSUME HonestInv, Next, ~\E w \in Writers : LogAccess(w),
         audit_archive' = audit_archive, audit_tail' = audit_tail, damages' = 0
  PROVE  agent_access_log' = agent_access_log
<1>1. ASSUME NEW c \in Checkpointers, NEW a, began[c] # NotBegun, a.archived_at = began[c],
             audit_archive' = audit_archive \cup {a}
      PROVE  FALSE
  <2>1. a \in audit_archive
    BY <1>1
  <2>2. a.archived_at < began[c] /\ began[c] \in Nat
    BY <1>1, <2>1 DEF HonestInv, ClockInv, TypeOK, Sessions
  <2>. QED
    BY <1>1, <2>2
<1>2. ASSUME NEW c \in Checkpointers, Prune(c)
      PROVE  FALSE
  BY <1>1, <1>2 DEF Prune, PruneCheckpoint
<1>3. ASSUME NEW c \in Checkpointers, ContinuityReset(c)
      PROVE  FALSE
  BY <1>1, <1>3 DEF ContinuityReset, ResetCheckpoint
<1>4. ASSUME NEW c \in Checkpointers, GenesisReset(c)
      PROVE  agent_access_log' = agent_access_log
  <2>1. audit_tail.last_entry_id = 0 /\ agent_access_log' = {}
    BY <1>4 DEF GenesisReset
  <2>2. agent_access_log = {}
    BY <2>1 DEF HonestInv, TypeOK, Row, LinkInv, ChainLinked
  <2>. QED
    BY <2>1, <2>2
<1>5. ASSUME Damage
      PROVE  FALSE
  BY <1>5 DEF Damage, HonestInv, TypeOK
<1>6. ASSUME NEW s \in Sessions, Begin(s) \/ Rollback(s)
      PROVE  agent_access_log' = agent_access_log
  BY <1>6 DEF Begin, Rollback
<1>7. ASSUME NEW c \in Checkpointers, PruneNothing(c)
      PROVE  agent_access_log' = agent_access_log
  BY <1>7 DEF PruneNothing
<1>. QED
  BY <1>2, <1>3, <1>4, <1>5, <1>6, <1>7 DEF Next

\* An insert adds a row after all others, and does not change any seed a walk may have.
LEMMA InsertKeepsSeed ==
  ASSUME HonestInv, NEW w \in Writers, LogAccess(w), NEW s \in Nat,
         s > 1 => HasRowFrom(s)
  PROVE  /\ audit_archive' = audit_archive
         /\ agent_access_log \subseteq agent_access_log'
         /\ s > 1 /\ ~HasRowAt(s - 1) => ~\E r \in agent_access_log' : r.id = s - 1
         /\ StartSeed(agent_access_log', audit_archive', s)
              = StartSeed(agent_access_log, audit_archive, s)
<1>1. PICK payload \in Payloads :
        agent_access_log' = agent_access_log \cup {TriggerRow(payload, began[w])}
  BY DEF LogAccess
<1>2. PICK row : row = TriggerRow(payload, began[w])
  OBVIOUS
<1>3. agent_access_log' = agent_access_log \cup {row} /\ audit_archive' = audit_archive
  BY <1>1, <1>2 DEF LogAccess
<1>4. row.id = audit_tail.last_entry_id + 1 /\ audit_tail.last_entry_id \in Nat
  BY <1>2 DEF TriggerRow, HonestInv, TypeOK
<1>5. s > 1 => row.id # s - 1
  BY <1>4 DEF HasRowFrom, HonestInv, TypeOK, Row, LinkInv, ChainLinked
<1>6. s > 1 => \A q \in agent_access_log' : q.id = s - 1 <=> q \in agent_access_log /\ q.id = s - 1
  BY <1>3, <1>5
<1>7. CASE s > 1 /\ HasRowAt(s - 1)
  <2>1. PICK q \in agent_access_log : q.id = s - 1
    BY <1>7 DEF HasRowAt
  <2>2. \A o \in agent_access_log : o.id = s - 1 => o = q
    BY <2>1 DEF HonestInv, LinkInv, ChainLinked
  <2>3. (CHOOSE o \in agent_access_log : o.id = s - 1) = q
    BY <2>1, <2>2
  <2>4. (CHOOSE o \in agent_access_log' : o.id = s - 1) = q
    BY <2>1, <2>2, <1>3, <1>6, <1>7
  <2>5. StartSeed(agent_access_log, audit_archive, s) = q.entry_hash
    BY <2>1, <2>3, <1>7 DEF StartSeed
  <2>6. StartSeed(agent_access_log', audit_archive', s) = q.entry_hash
    BY <2>1, <2>4, <1>3, <1>7 DEF StartSeed
  <2>. QED
    BY <2>5, <2>6, <1>3, <1>7
<1>8. CASE ~(s > 1 /\ HasRowAt(s - 1))
  <2>1. ~(s > 1 /\ \E q \in agent_access_log' : q.id = s - 1)
    BY <1>6, <1>8 DEF HasRowAt
  <2>2. StartSeed(agent_access_log, audit_archive, s) = ArchiveSeed(audit_archive)
    BY <1>8 DEF StartSeed, HasRowAt
  <2>3. StartSeed(agent_access_log', audit_archive', s) = ArchiveSeed(audit_archive)
    BY <2>1, <1>3 DEF StartSeed
  <2>. QED
    BY <2>1, <2>2, <2>3, <1>3
<1>. QED
  BY <1>7, <1>8

LEMMA ChainKeepsKnowledge ==
  ASSUME RefreshInv, ChainStep, Quiet'
  PROVE  JobKnows'
<1>1. /\ Next /\ job' = job
      /\ overlap \subseteq overlap'
      /\ damages \in Nat
  BY DEF ChainStep, RefreshInv, HonestInv, TypeOK
<1>2. damages = 0
  <2>1. damages' = damages \/ damages' = damages + 1
    BY <1>1 DEF Next, Begin, Rollback, LogAccess, Prune, PruneNothing, ContinuityReset,
                GenesisReset, Damage
  <2>. QED
    BY <1>1, <2>1 DEF Quiet
<1>3. HonestInv /\ JobKnows /\ job \in Jobs
  BY <1>1, <1>2 DEF RefreshInv, Quiet, StatusTypes
<1>4. job.start \in Nat
  BY <1>3 DEF Jobs
<1>5. ASSUME NEW w \in Writers, LogAccess(w)
      PROVE  JobKnows'
  <2>1. "insert" \in overlap'
    BY <1>5 DEF ChainStep
  <2>2. audit_archive' = audit_archive /\ agent_access_log \subseteq agent_access_log'
    BY <1>5 DEF LogAccess
  <2>3. CASE job.at \in {"prev", "archive", "rows"}
    <3>1. job.start > 1 => HasRowFrom(job.start)
      BY <1>3, <2>3 DEF JobKnows
    <3>2. /\ job.start > 1 /\ ~HasRowAt(job.start - 1)
               => ~\E r \in agent_access_log' : r.id = job.start - 1
          /\ StartSeed(agent_access_log', audit_archive', job.start)
               = StartSeed(agent_access_log, audit_archive, job.start)
      BY <3>1, <1>3, <1>4, <1>5, InsertKeepsSeed
    <3>3. job.start > 1 => \E r \in agent_access_log' : r.id >= job.start
      BY <3>1, <2>2 DEF HasRowFrom
    <3>. QED
      BY <3>2, <3>3, <2>1, <2>2, <2>3, <1>1, <1>3 DEF JobKnows, HasRowFrom, HasRowAt
  <2>4. CASE job.at \notin {"prev", "archive", "rows"}
    BY <2>1, <2>2, <2>4, <1>1, <1>3 DEF JobKnows
  <2>. QED
    BY <2>3, <2>4
<1>6. CASE ~\E w \in Writers : LogAccess(w)
  <2>1. audit_archive' = audit_archive /\ audit_tail' = audit_tail
    BY <1>6 DEF ChainStep, Quiet
  <2>2. agent_access_log' = agent_access_log
    BY <2>1, <1>1, <1>3, <1>6, QuietSteps DEF Quiet
  <2>. QED
    BY <2>1, <2>2, <1>1, <1>3 DEF JobKnows, HasRowFrom, HasRowAt
<1>. QED
  BY <1>5, <1>6

LEMMA JobLearns ==
  ASSUME RefreshInv, JobStep, Quiet'
  PROVE  JobKnows'
<1>1. UNCHANGED <<agent_access_log, audit_archive, audit_tail, damages>>
  BY DEF JobStep, vars
<1>2. TypeOK /\ LinkInv /\ HonestInv /\ damages = 0
  BY <1>1 DEF RefreshInv, HonestInv, Quiet
<1>3. SeedLinks
  BY <1>2 DEF HonestInv, SeedInv
<1>4. job \in Jobs /\ job.start \in Nat
  BY DEF RefreshInv, StatusTypes, Jobs
<1>5. CASE ReadStart
  <2>1. PICK start : start = TailStart(agent_access_log)
    OBVIOUS
  <2>2. job' = [NoJob EXCEPT !.start = start, !.at = IF start > 1 THEN "prev" ELSE "archive"]
    BY <1>5, <2>1 DEF ReadStart
  <2>3. start \in Nat /\ (start > 1 => HasRowFrom(start))
    BY <1>2, <2>1, TailStartType DEF HasRowFrom
  <2>4. job'.start = start /\ job'.at = IF start > 1 THEN "prev" ELSE "archive"
    BY <2>2 DEF NoJob
  <2>. QED
    BY <2>3, <2>4, <1>1 DEF JobKnows, HasRowFrom
<1>6. CASE ~ReadStart
  <2>1. overlap' = overlap
    BY <1>6 DEF JobStep, RefreshStep, ReadPrevRow, ReadArchive, ReadRows, ReadTail, StoreResult,
                StoreError, RefreshFails, WorkerRestarts
  <2>2. JobKnows
    BY <2>1, <1>2 DEF RefreshInv, Quiet
  <2>3. CASE ReadPrevRow
    <3>1. job.at = "prev" /\ job.start > 1 /\ HasRowFrom(job.start)
      BY <2>2, <2>3 DEF ReadPrevRow, JobKnows
    <3>2. CASE HasRowAt(job.start - 1)
      <4>1. PICK q \in agent_access_log :
              q.id = job.start - 1 /\ job' = [job EXCEPT !.at = "rows", !.seed = q.entry_hash]
        BY <2>3, <3>2 DEF ReadPrevRow, HasRowAt
      <4>2. \A o \in agent_access_log : o.id = job.start - 1 => o = q
        BY <4>1, <1>2 DEF LinkInv, ChainLinked
      <4>3. (CHOOSE o \in agent_access_log : o.id = job.start - 1) = q
        BY <4>1, <4>2
      <4>4. StartSeed(agent_access_log, audit_archive, job.start) = q.entry_hash
        BY <3>1, <4>1, <4>3 DEF StartSeed
      <4>5. job'.at = "rows" /\ job'.seed = q.entry_hash /\ job'.start = job.start
        BY <4>1, <1>4 DEF Jobs
      <4>. QED
        BY <4>4, <4>5, <3>1, <1>1 DEF JobKnows, HasRowFrom
    <3>3. CASE ~HasRowAt(job.start - 1)
      <4>1. job' = [job EXCEPT !.at = "archive"]
        BY <2>3, <3>3 DEF ReadPrevRow, HasRowAt
      <4>2. job'.at = "archive" /\ job'.start = job.start
        BY <4>1, <1>4 DEF Jobs
      <4>. QED
        BY <4>2, <3>1, <3>3, <1>1 DEF JobKnows, HasRowFrom, HasRowAt
    <3>. QED
      BY <3>2, <3>3
  <2>4. CASE ReadArchive
    <3>1. job.at = "archive" /\ job' = [job EXCEPT !.at = "rows",
                                                   !.seed = ArchiveSeed(audit_archive)]
      BY <2>4 DEF ReadArchive
    <3>2. job'.at = "rows" /\ job'.seed = ArchiveSeed(audit_archive) /\ job'.start = job.start
      BY <3>1, <1>4 DEF Jobs
    <3>3. /\ job.start > 1 => HasRowFrom(job.start)
          /\ ~(job.start > 1 /\ HasRowAt(job.start - 1))
      BY <3>1, <2>2 DEF JobKnows
    <3>4. StartSeed(agent_access_log, audit_archive, job.start) = ArchiveSeed(audit_archive)
      BY <3>3 DEF StartSeed, HasRowAt
    <3>. QED
      BY <3>2, <3>3, <3>4, <1>1 DEF JobKnows, HasRowFrom
  <2>5. CASE ReadRows
    <3>1. PICK rows : rows = RowsFrom(job.start)
      OBVIOUS
    <3>2. Breaks(rows, job.seed) = {}
      <4>1. job.seed = StartSeed(agent_access_log, audit_archive, job.start)
        BY <2>2, <2>5 DEF ReadRows, JobKnows
      <4>2. rows = Range(agent_access_log, job.start, audit_tail.last_entry_id)
        BY <3>1, <1>2, <1>4, OpenRange DEF RowsFrom
      <4>3. audit_tail.last_entry_id \in Nat
        BY <1>2 DEF TypeOK
      <4>. QED
        BY <4>1, <4>2, <4>3, <1>2, <1>4, HonestWalk
    <3>3. job.at = "rows"
          /\ job' = [job EXCEPT !.rows = rows,
                                !.at = IF rows = {} /\ job.start <= 1 THEN "tail" ELSE "store",
                                !.valid = "true"]
      BY <2>5, <3>1, <3>2 DEF ReadRows, Verdict
    <3>4. /\ job'.rows = rows /\ job'.start = job.start /\ job'.seed = job.seed
          /\ job'.valid = "true"
          /\ job'.at = IF rows = {} /\ job.start <= 1 THEN "tail" ELSE "store"
      BY <3>3, <1>4 DEF Jobs
    <3>5. ASSUME rows = {}, job.start <= 1
          PROVE  agent_access_log = {} /\ job.seed = ArchiveSeed(audit_archive)
      <4>1. agent_access_log = {}
        BY <3>1, <3>5, <1>2, <1>4 DEF RowsFrom, TypeOK, Row, LinkInv, ChainLinked
      <4>2. job.seed = StartSeed(agent_access_log, audit_archive, job.start)
        BY <2>2, <3>3 DEF JobKnows
      <4>. QED
        BY <4>1, <4>2 DEF StartSeed
    <3>. QED
      BY <3>4, <3>5, <1>1 DEF JobKnows
  <2>6. CASE ReadTail
    <3>1. /\ job.at = "tail"
          /\ job' = [job EXCEPT !.at = "store",
                                !.valid = Verdict(~SeedMismatch(job.rows, job.seed, TRUE,
                                                                audit_tail.last_entry_hash))]
      BY <2>6 DEF ReadTail
    <3>2. job'.at = "store" /\ job'.rows = job.rows
          /\ job'.valid = Verdict(~SeedMismatch(job.rows, job.seed, TRUE,
                                                audit_tail.last_entry_hash))
      BY <3>1, <1>4 DEF Jobs
    <3>3. job.rows = {} /\ job.seed = ArchiveSeed(audit_archive)
          /\ (agent_access_log = {} \/ "insert" \in overlap)
      BY <3>1, <2>2 DEF JobKnows
    <3>4. agent_access_log = {} => job'.valid = "true"
      BY <3>2, <3>3, <1>3 DEF SeedLinks, SeedMismatch, Verdict
    <3>. QED
      BY <3>2, <3>3, <3>4, <2>1 DEF JobKnows
  <2>7. CASE StoreResult \/ StoreError \/ WorkerRestarts \/ RefreshFails
    <3>1. job' = NoJob \/ job' = [NoJob EXCEPT !.at = "failed"]
      BY <2>7 DEF StoreResult, StoreError, WorkerRestarts, RefreshFails
    <3>2. job'.at \in {"idle", "failed"}
      BY <3>1 DEF NoJob
    <3>. QED
      BY <3>2 DEF JobKnows
  <2>. QED
    BY <1>6, <2>3, <2>4, <2>5, <2>6, <2>7 DEF JobStep, RefreshStep
<1>. QED
  BY <1>5, <1>6

LEMMA RefreshStepInv ==
  ASSUME OneCheckpointer, RefreshInv, [StatusNext]_allVars
  PROVE  RefreshInv'
<1>1. [Next]_vars
  BY DEF StatusNext, ChainStep, JobStep, allVars
<1>2. HonestInv' /\ StatusTypes'
  BY <1>1, HonestInvariant, StatusStepTypes DEF RefreshInv
<1>3. CASE UNCHANGED allVars
  <2>1. UNCHANGED <<agent_access_log, audit_archive, damages, job, overlap>>
    BY <1>3 DEF allVars, vars, statusVars
  <2>. QED
    BY <2>1, <1>2 DEF RefreshInv, Quiet, JobKnows, HasRowFrom, HasRowAt
<1>4. CASE StatusNext
  BY <1>2, <1>4, ChainKeepsKnowledge, JobLearns DEF StatusNext, RefreshInv
<1>. QED
  BY <1>3, <1>4

\* The periodic verification takes no lock, and inserts alone never make it report a break,
\* whichever of its queries they come between, unless the log was empty when it was walked;
\* for any number of writers, rows and failed refreshes, and every TailRows.
THEOREM WritersNeverAlarm ==
  ASSUME OneCheckpointer
  PROVE  StatusSpec => []WritersRaiseNoAlarm
<1>1. StatusInit => RefreshInv
  BY HonestInvariant, StatusInitTypes DEF StatusInit, RefreshInv, JobKnows, NoJob
<1>2. RefreshInv /\ [StatusNext]_allVars => RefreshInv'
  BY RefreshStepInv
<1>3. RefreshInv => WritersRaiseNoAlarm
  BY DEF RefreshInv, Quiet, JobKnows, WritersRaiseNoAlarm
<1>. QED
  BY <1>1, <1>2, <1>3, PTL DEF StatusSpec

=============================================================================
