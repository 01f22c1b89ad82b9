----------------------------- MODULE AuditChain ------------------------------
(***************************************************************************)
(* The hash-chained audit log of init-db/014 and 022-026: the table        *)
(* agent_access_log with its BEFORE INSERT trigger, the single-row table   *)
(* audit_tail, the checkpoint registry audit_archive, retention pruning,   *)
(* the two forced resets and the verifier.                                 *)
(*                                                                         *)
(* A database session begins a transaction (now() is fixed then), waits    *)
(* for the row lock on audit_tail, does its work and commits.  The lock is *)
(* held from the first read of audit_tail to the commit, and the other     *)
(* sessions see only what is committed, so the part under the lock is one  *)
(* step here.  Between Begin and that step any other session may run.      *)
(* Module AuditLocks opens that step up to study the locks themselves.     *)
(*                                                                         *)
(* SHA-256 is taken to be collision free: a digest is represented by the   *)
(* sequence of all the field values that went into it.                     *)
(***************************************************************************)
EXTENDS Naturals, Sequences, FiniteSets

CONSTANTS
  Writers,        \* sessions that insert audit rows (log_access)
  Checkpointers,  \* sessions that prune or force a reset
  Payloads,       \* what a row records besides its id and its timestamp
  ResetPayload,   \* what the self-record of a forced reset records
  TailRows,       \* HEALTH_CHAIN_TAIL_ROWS / AUDIT_INTEGRITY_TAIL_ROWS
  MaxTime,        \* bound: transactions begun in a behaviour
  MaxDamage       \* bound: rows altered behind the application's back

ASSUME SessionsAssumption == Writers \cap Checkpointers = {}
ASSUME BoundsAssumption == MaxTime \in Nat /\ MaxDamage \in Nat
ASSUME TailAssumption == TailRows \in Nat \ {0}

VARIABLES
  agent_access_log,   \* the live rows
  audit_archive,      \* the checkpoints
  audit_tail,         \* hash and id of the newest row
  began,              \* now() of each session's open transaction, or NotBegun
  clock,              \* the latest now() handed out
  damages             \* rows altered outside the application so far

vars == <<agent_access_log, audit_archive, audit_tail, began, clock, damages>>

Sessions == Writers \cup Checkpointers
NotBegun == 0
NoId == 0           \* first_invalid_id IS NULL

-----------------------------------------------------------------------------
(* Digests and rows *)

Entry == [id : Nat, payload : Payloads \cup {ResetPayload}, created_at : Nat]
Digest == Seq(Entry)
Genesis == <<>>

\* pb_audit_hash_payload
HashPayload(prev, id, payload, created_at) ==
  Append(prev, [id |-> id, payload |-> payload, created_at |-> created_at])

Row == [id : Nat, payload : Payloads \cup {ResetPayload}, created_at : Nat,
        prev_hash : Digest, entry_hash : Digest]

Checkpoint == [archived_at : Nat, last_entry_id : Nat, last_verified_hash : Digest,
               chain_valid : BOOLEAN, is_reset : BOOLEAN]

\* The row's content no longer hashes to its entry_hash.
Damaged(r) == r.entry_hash # HashPayload(r.prev_hash, r.id, r.payload, r.created_at)

IsNewest(r, rows) == r \in rows /\ \A q \in rows : q.id <= r.id

-----------------------------------------------------------------------------
(* The verifier, pb_verify_audit_chain: its three reads (checkpoints, rows *)
(* and tail) are parameters, so that AuditVerifier can make them at        *)
(* different moments.                                                      *)

\* SELECT last_verified_hash FROM audit_archive ORDER BY archived_at DESC LIMIT 1
ArchiveSeed(archive) ==
  IF archive = {} THEN Genesis
  ELSE (CHOOSE a \in archive : \A b \in archive : b.archived_at <= a.archived_at)
         .last_verified_hash

StartSeed_OffByOne(rows, archive, start) ==
  IF start > 1 /\ \E q \in rows : q.id = start
  THEN (CHOOSE q \in rows : q.id = start).entry_hash
  ELSE ArchiveSeed(archive)

\* entry_hash of the row before the range when there is one.
StartSeed(rows, archive, start) ==
  IF start > 1 /\ \E q \in rows : q.id = start - 1
  THEN (CHOOSE q \in rows : q.id = start - 1).entry_hash
  ELSE ArchiveSeed(archive)

\* v_expected_prev when the walk reaches r: the row just before it, or the seed.
ExpectedPrev(rows, seed, r) ==
  LET before == {q \in rows : q.id < r.id}
  IN  IF before = {} THEN seed
      ELSE (CHOOSE q \in before : \A o \in before : o.id <= q.id).entry_hash

Breaks_LinksOnly(rows, seed) ==
  {r \in rows : r.prev_hash # ExpectedPrev(rows, seed, r)}

\* The rows at which the walk would stop.
Breaks(rows, seed) ==
  {r \in rows : LET expected == ExpectedPrev(rows, seed, r)
                IN  \/ r.prev_hash # expected
                    \/ r.entry_hash # HashPayload(expected, r.id, r.payload, r.created_at)}

\* The comparison with audit_tail made when a walk from the head met no row.
SeedMismatch(rows, seed, atHead, tailHash) ==
  atHead /\ rows = {} /\ tailHash # seed

ChainValid(rows, seed, atHead, tailHash) ==
  /\ Breaks(rows, seed) = {}
  /\ ~SeedMismatch(rows, seed, atHead, tailHash)

FirstInvalid(rows, seed, atHead, tailHash) ==
  IF Breaks(rows, seed) # {}
  THEN (CHOOSE r \in Breaks(rows, seed) :
          \A q \in Breaks(rows, seed) : r.id <= q.id).id
  ELSE IF SeedMismatch(rows, seed, atHead, tailHash) THEN 1 ELSE NoId

\* pb_verify_audit_chain(start, end): start 0 and end Unbounded stand for NULL.
Range(rows, start, end) == {r \in rows : start <= r.id /\ r.id <= end}

VerifyRange(start, end) ==
  ChainValid(Range(agent_access_log, start, end),
             StartSeed(agent_access_log, audit_archive, start),
             start <= 1, audit_tail.last_entry_hash)

\* pb_verify_audit_chain() with both bounds NULL.
VerifyWhole ==
  ChainValid(agent_access_log, ArchiveSeed(audit_archive), TRUE,
             audit_tail.last_entry_hash)

\* pb_verify_audit_chain_tail: the id the walk starts from, 0 for NULL.
TailStart(rows) ==
  IF \E r \in rows : IsNewest(r, rows) /\ r.id >= TailRows
  THEN (CHOOSE r \in rows : IsNewest(r, rows)).id - TailRows + 1
  ELSE 0

VerifyTail ==
  LET start == TailStart(agent_access_log)
      rows  == {r \in agent_access_log : r.id >= start}
  IN  ChainValid(rows, StartSeed(agent_access_log, audit_archive, start),
                 start <= 1, audit_tail.last_entry_hash)

-----------------------------------------------------------------------------
(* Actions *)

Init ==
  /\ agent_access_log = {}
  /\ audit_archive = {}
  /\ audit_tail = [last_entry_hash |-> Genesis, last_entry_id |-> 0]
  /\ began = [s \in Sessions |-> NotBegun]
  /\ clock = 0
  /\ damages = 0

\* A session's transaction starts; no two start at the same microsecond.
Begin(s) ==
  /\ began[s] = NotBegun
  /\ clock < MaxTime
  /\ clock' = clock + 1
  /\ began' = [began EXCEPT ![s] = clock + 1]
  /\ UNCHANGED <<agent_access_log, audit_archive, audit_tail, damages>>

\* The statement fails, or its client gives up waiting: nothing it did remains.
Rollback(s) ==
  /\ began[s] # NotBegun
  /\ began' = [began EXCEPT ![s] = NotBegun]
  /\ UNCHANGED <<agent_access_log, audit_archive, audit_tail, clock, damages>>

TriggerRow_NextvalId(payload, now) ==
  [id |-> now, payload |-> payload, created_at |-> now,
   prev_hash |-> audit_tail.last_entry_hash,
   entry_hash |-> HashPayload(audit_tail.last_entry_hash, now, payload, now)]

TriggerRow_ArchivePrev(payload, now) ==
  LET id == audit_tail.last_entry_id + 1
      prev == ArchiveSeed(audit_archive)
  IN  [id |-> id, payload |-> payload, created_at |-> now, prev_hash |-> prev,
       entry_hash |-> HashPayload(prev, id, payload, now)]

\* The row the BEFORE INSERT trigger makes of an INSERT.
TriggerRow(payload, now) ==
  LET id == audit_tail.last_entry_id + 1
  IN  [id |-> id, payload |-> payload, created_at |-> now,
       prev_hash |-> audit_tail.last_entry_hash,
       entry_hash |-> HashPayload(audit_tail.last_entry_hash, id, payload, now)]

\* log_access: the INSERT with its trigger, committed.
LogAccess(w) ==
  /\ began[w] # NotBegun
  /\ \E payload \in Payloads :
       LET row == TriggerRow(payload, began[w])
       IN  /\ agent_access_log' = agent_access_log \cup {row}
           /\ audit_tail' = [last_entry_hash |-> row.entry_hash,
                             last_entry_id |-> row.id]
  /\ began' = [began EXCEPT ![w] = NotBegun]
  /\ UNCHANGED <<audit_archive, clock, damages>>

\* The rows older than the retention cutoff.
OldRows(cutoff) == {r \in agent_access_log : r.created_at < cutoff}

\* The rows a checkpoint at row last covers.
Prefix(last) == {r \in agent_access_log : r.id <= last.id}

PrefixValid_Unchecked(last) == TRUE

\* pb_verify_audit_chain(NULL, last.id), called by the prune.
PrefixValid(last) ==
  ChainValid(Prefix(last), ArchiveSeed(audit_archive), TRUE,
             audit_tail.last_entry_hash)

PruneCheckpoint_TailHash(c, last) ==
  [archived_at |-> began[c], last_entry_id |-> last.id,
   last_verified_hash |-> audit_tail.last_entry_hash,
   chain_valid |-> PrefixValid(last), is_reset |-> FALSE]

PruneCheckpoint(c, last) ==
  [archived_at |-> began[c], last_entry_id |-> last.id,
   last_verified_hash |-> last.entry_hash, chain_valid |-> PrefixValid(last),
   is_reset |-> FALSE]

\* pb_audit_checkpoint_and_prune when a row is old enough.  The checkpoint is
\* written in any case, the rows are deleted only when they verify.
Prune(c) ==
  /\ began[c] # NotBegun
  /\ \E cutoff \in 1..(began[c] - 1), last \in agent_access_log :
       /\ IsNewest(last, OldRows(cutoff))
       /\ audit_archive' = audit_archive \cup {PruneCheckpoint(c, last)}
       /\ agent_access_log' = IF PrefixValid(last)
                              THEN agent_access_log \ Prefix(last)
                              ELSE agent_access_log
  /\ began' = [began EXCEPT ![c] = NotBegun]
  /\ UNCHANGED <<audit_tail, clock, damages>>

\* pb_audit_checkpoint_and_prune when no row is old enough: it returns early.
PruneNothing(c) ==
  /\ began[c] # NotBegun
  /\ \E cutoff \in 1..(began[c] - 1) : OldRows(cutoff) = {}
  /\ began' = [began EXCEPT ![c] = NotBegun]
  /\ UNCHANGED <<agent_access_log, audit_archive, audit_tail, clock, damages>>

ResetCheckpoint(c) ==
  LET self == TriggerRow(ResetPayload, began[c])
  IN  [archived_at |-> began[c], last_entry_id |-> self.id,
       last_verified_hash |-> self.entry_hash, chain_valid |-> FALSE,
       is_reset |-> TRUE]

\* pb_audit_force_reset('continuity'): the self-record is inserted, archived
\* and truncated in one transaction.
ContinuityReset(c) ==
  /\ began[c] # NotBegun
  /\ audit_archive' = audit_archive \cup {ResetCheckpoint(c)}
  /\ agent_access_log' = {}
  /\ audit_tail' = [last_entry_hash |-> ResetCheckpoint(c).last_verified_hash,
                    last_entry_id |-> 0]
  /\ began' = [began EXCEPT ![c] = NotBegun]
  /\ UNCHANGED <<clock, damages>>

\* pb_audit_force_reset('genesis').
GenesisReset(c) ==
  /\ began[c] # NotBegun
  /\ audit_archive' = {}
  /\ agent_access_log' = {}
  /\ audit_tail' = [last_entry_hash |-> Genesis, last_entry_id |-> 0]
  /\ began' = [began EXCEPT ![c] = NotBegun]
  /\ UNCHANGED <<clock, damages>>

\* A row is altered outside the application (disk fault, hand repair): UPDATE
\* is refused by trg_audit_block_update, so no code in the repository does it.
Damage ==
  /\ damages < MaxDamage
  /\ \E r \in agent_access_log, payload \in Payloads :
       /\ payload # r.payload
       /\ agent_access_log' = (agent_access_log \ {r})
                                \cup {[r EXCEPT !.payload = payload]}
  /\ damages' = damages + 1
  /\ UNCHANGED <<audit_archive, audit_tail, began, clock>>

Next ==
  \/ \E s \in Sessions : Begin(s) \/ Rollback(s)
  \/ \E w \in Writers : LogAccess(w)
  \/ \E c \in Checkpointers :
       Prune(c) \/ PruneNothing(c) \/ ContinuityReset(c) \/ GenesisReset(c)
  \/ Damage

Spec == Init /\ [][Next]_vars

-----------------------------------------------------------------------------
(* Properties *)

\* The tables and the sessions hold values of their types.
TypeOK ==
  /\ agent_access_log \subseteq Row
  /\ audit_archive \subseteq Checkpoint
  /\ audit_tail \in [last_entry_hash : Digest, last_entry_id : Nat]
  /\ began \in [Sessions -> Nat]
  /\ clock \in Nat
  /\ damages \in Nat

\* Id order is chain order, without gaps, up to the tail pointer: what the
\* trigger of 022 promises under concurrent writers, prunes and resets.
ChainLinked ==
  /\ \A r \in agent_access_log : \A i \in r.id..audit_tail.last_entry_id :
       \E q \in agent_access_log : q.id = i
  /\ \A r \in agent_access_log : 1 <= r.id /\ r.id <= audit_tail.last_entry_id
  /\ \A r, q \in agent_access_log :
       /\ r.id = q.id => r = q
       /\ q.id = r.id + 1 => q.prev_hash = r.entry_hash
  /\ \A r \in agent_access_log :
       r.id = audit_tail.last_entry_id => r.entry_hash = audit_tail.last_entry_hash

\* The worker's scheduler runs a job with max_instances=1, and nothing else in
\* the repository checkpoints the log while the system serves requests.
OneCheckpointer == \A a, b \in Checkpointers : a = b

\* As long as nobody altered a row, pb_verify_audit_chain() says valid=true,
\* whatever was pruned or reset before.
HonestChainAccepted == damages = 0 => VerifyWhole

\* The same for the ranges an administrator or the health check asks for: from
\* any id to any id, when the range holds a row or does not start at the head,
\* and for the last TailRows rows.
HonestRangesAccepted ==
  damages = 0 =>
    /\ \A start, end \in 0..(MaxTime + 1) :
         Range(agent_access_log, start, end) # {} \/ start > 1 => VerifyRange(start, end)
    /\ VerifyTail

\* While every checkpoint on file verified or came from a reset, the verifier
\* names the oldest altered row.
DamageLocated ==
  LET altered == {r \in agent_access_log : Damaged(r)}
  IN  altered # {} /\ (\A a \in audit_archive : a.chain_valid \/ a.is_reset) =>
        \E r \in altered :
          /\ \A q \in altered : r.id <= q.id
          /\ r.id = FirstInvalid(agent_access_log, ArchiveSeed(audit_archive), TRUE,
                                audit_tail.last_entry_hash)

\* An altered row leaves the live table by a forced reset only: the prune
\* never deletes it (fail-closed), whatever checkpoints exist.
DamageNeverPruned ==
  [][\A r \in agent_access_log :
        Damaged(r) => \/ \E q \in agent_access_log' : q.id = r.id
                      \/ audit_tail'.last_entry_id = 0]_vars

\* The live table only loses entries to a checkpoint of the same transaction
\* that covers them, or to a genesis reset; an insert never removes any.
RemovalIsCheckpointed ==
  [][\A r \in agent_access_log :
        \/ \E q \in agent_access_log' : q.id = r.id
        \/ \E a \in audit_archive' \ audit_archive : r.id <= a.last_entry_id
        \/ audit_archive' = {}]_vars

\* The abstract ledger this module implements: the digest in audit_tail is the
\* ledger itself, and the oldest live row shows how much of it was dropped.
Dropped ==
  IF agent_access_log = {} THEN Len(audit_tail.last_entry_hash)
  ELSE Len((CHOOSE r \in agent_access_log :
              \A q \in agent_access_log : r.id <= q.id).prev_hash)

Ledger == INSTANCE AuditLedger
            WITH ledger <- audit_tail.last_entry_hash, dropped <- Dropped

ImplementsLedger == Ledger!LedgerSpec

=============================================================================
