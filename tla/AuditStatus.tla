----------------------------- MODULE AuditStatus -----------------------------
(***************************************************************************)
(* The periodic verification of the audit chain: the worker job            *)
(* audit_integrity_status_refresh calls pb_verify_audit_chain_tail and     *)
(* stores the answer in the one-row table audit_integrity_status, which    *)
(* the MCP server shows in its transparency report.                        *)
(*                                                                         *)
(* The verifier is a volatile PL/pgSQL function under READ COMMITTED and   *)
(* takes no lock, so each of its queries sees a newer state of the tables: *)
(* every query is a step here, and the writers, prunes and resets of       *)
(* AuditChain run between them.                                            *)
(***************************************************************************)
EXTENDS AuditChain

CONSTANT MaxErrors      \* bound: refreshes that fail

ASSUME ErrorsAssumption == MaxErrors \in Nat

VARIABLES
  job,       \* the running refresh: where it is and what it has read
  audit_integrity_status,   \* the status row
  errors,    \* refreshes that failed so far
  overlap    \* what was committed since the running refresh read its first row

statusVars == <<job, audit_integrity_status, errors, overlap>>
allVars == <<vars, statusVars>>

Null == "null"      \* the column valid IS NULL
Verdicts == {"true", "false"}
Commits == {"insert", "checkpoint"}
Points == {"idle", "prev", "archive", "rows", "tail", "store", "failed"}

Verdict(ok) == IF ok THEN "true" ELSE "false"

NoJob == [at |-> "idle", start |-> 0, seed |-> Genesis, rows |-> {}, valid |-> Null]

-----------------------------------------------------------------------------
(* The refresh job *)

StatusInit ==
  /\ Init
  /\ job = NoJob
  /\ audit_integrity_status = [valid |-> Null, error |-> FALSE]
  /\ errors = 0
  /\ overlap = {}

\* The job is started and SELECT MAX(id) - n + 1 runs.
ReadStart ==
  /\ job.at = "idle"
  /\ LET start == TailStart(agent_access_log)
     IN  job' = [NoJob EXCEPT !.start = start,
                              !.at = IF start > 1 THEN "prev" ELSE "archive"]
  /\ overlap' = {}
  /\ UNCHANGED <<audit_integrity_status, errors>>

\* SELECT entry_hash of the row before the range.
ReadPrevRow ==
  /\ job.at = "prev"
  /\ \/ \E q \in agent_access_log :
          /\ q.id = job.start - 1
          /\ job' = [job EXCEPT !.at = "rows", !.seed = q.entry_hash]
     \/ /\ \A q \in agent_access_log : q.id # job.start - 1
        /\ job' = [job EXCEPT !.at = "archive"]
  /\ UNCHANGED <<audit_integrity_status, errors, overlap>>

\* SELECT last_verified_hash of the newest checkpoint.
ReadArchive ==
  /\ job.at = "archive"
  /\ job' = [job EXCEPT !.at = "rows", !.seed = ArchiveSeed(audit_archive)]
  /\ UNCHANGED <<audit_integrity_status, errors, overlap>>

RowsFrom_Exclusive(start) == {r \in agent_access_log : r.id > start}

RowsFrom(start) == {r \in agent_access_log : r.id >= start}

\* The walk over the range: one query, whose snapshot does not change.
ReadRows ==
  /\ job.at = "rows"
  /\ LET rows == RowsFrom(job.start)
     IN  job' = [job EXCEPT
                  !.rows  = rows,
                  !.at    = IF rows = {} /\ job.start <= 1 THEN "tail" ELSE "store",
                  !.valid = Verdict(Breaks(rows, job.seed) = {})]
  /\ UNCHANGED <<audit_integrity_status, errors, overlap>>

\* SELECT last_entry_hash FROM audit_tail: the seed check of an empty walk.
ReadTail ==
  /\ job.at = "tail"
  /\ job' = [job EXCEPT !.at = "store",
                        !.valid = Verdict(~SeedMismatch(job.rows, job.seed, TRUE,
                                                        audit_tail.last_entry_hash))]
  /\ UNCHANGED <<audit_integrity_status, errors, overlap>>

Upserted_AlarmSticks(valid) ==
  [valid |-> IF audit_integrity_status.valid = "false" THEN "false" ELSE valid,
   error |-> FALSE]

Upserted_ValidKept(valid) ==
  IF audit_integrity_status.valid = Null
  THEN [valid |-> valid, error |-> FALSE]
  ELSE [audit_integrity_status EXCEPT !.error = FALSE]

\* The row the UPSERT of a verification leaves.
Upserted(valid) == [valid |-> valid, error |-> FALSE]

\* The row the UPSERT of an error leaves: only its column error is written.
UpsertedError == [audit_integrity_status EXCEPT !.error = TRUE]

StoreResult ==
  /\ job.at = "store"
  /\ audit_integrity_status' = Upserted(job.valid)
  /\ job' = NoJob
  /\ UNCHANGED <<errors, overlap>>

\* A query of the job raises (connection lost, statement timeout).
RefreshFails ==
  /\ job.at \notin {"idle", "failed"}
  /\ errors < MaxErrors
  /\ errors' = errors + 1
  /\ job' = [NoJob EXCEPT !.at = "failed"]
  /\ UNCHANGED <<audit_integrity_status, overlap>>

\* The except branch stores the error, or fails too and only logs it.
StoreError ==
  /\ job.at = "failed"
  /\ audit_integrity_status' \in {UpsertedError, audit_integrity_status}
  /\ job' = NoJob
  /\ UNCHANGED <<errors, overlap>>

\* The worker process is restarted: the refresh is gone, the row stays.
WorkerRestarts ==
  /\ job.at # "idle"
  /\ errors < MaxErrors
  /\ errors' = errors + 1
  /\ job' = NoJob
  /\ UNCHANGED <<audit_integrity_status, overlap>>

RefreshStep == ReadStart \/ ReadPrevRow \/ ReadArchive \/ ReadRows \/ ReadTail
                 \/ StoreResult \/ StoreError

\* A step of AuditChain, noted when it commits something the job may read.
ChainStep ==
  /\ Next
  /\ overlap' = overlap
       \cup (IF \E w \in Writers : LogAccess(w) THEN {"insert"} ELSE {})
       \cup (IF <<audit_archive, audit_tail>>' # <<audit_archive, audit_tail>>
                /\ ~\E w \in Writers : LogAccess(w) THEN {"checkpoint"} ELSE {})
  /\ UNCHANGED <<job, audit_integrity_status, errors>>

JobStep ==
  /\ RefreshStep \/ RefreshFails \/ WorkerRestarts
  /\ UNCHANGED vars

StatusNext == ChainStep \/ JobStep

StatusSpec == StatusInit /\ [][StatusNext]_allVars

\* APScheduler starts the job again and again, and PostgreSQL answers.
FairStatusSpec == StatusSpec /\ WF_allVars(RefreshStep /\ UNCHANGED vars)

-----------------------------------------------------------------------------
(* Properties *)

\* The job and the status row hold values of their types.
StatusTypeOK ==
  /\ job.at \in Points
  /\ job.start \in Nat
  /\ job.seed \in Digest
  /\ job.rows \subseteq Row
  /\ job.valid \in Verdicts \cup {Null}
  /\ audit_integrity_status \in [valid : Verdicts \cup {Null}, error : BOOLEAN]
  /\ errors \in 0..MaxErrors
  /\ overlap \subseteq Commits

\* What _transparency_audit_snapshot reports as "valid".
Reported ==
  IF audit_integrity_status.error THEN Null ELSE audit_integrity_status.valid

\* The verification takes no lock, and yet a writer cannot make it raise a
\* false alarm while the log has rows: an honest chain is found invalid only
\* when a prune or a reset committed between its queries, or when the log was
\* empty and its first row arrived before the seed check.
WritersRaiseNoAlarm ==
  damages = 0 /\ job.at = "store" /\ "checkpoint" \notin overlap =>
    job.valid = "true" \/ (job.rows = {} /\ "insert" \in overlap)

TailDamaged ==
  \E r \in agent_access_log :
    r.id >= TailStart(agent_access_log) /\ Damaged(r)

\* An altered row that stays among the last TailRows rows is not reported as
\* valid for ever: refreshes that fail, restarts and concurrent commits only
\* delay the alarm.
DamageReported == <>[]TailDamaged => <>[](Reported # "true")

\* A false alarm does not outlive the commits that caused it.
FalseAlarmClears == [](damages = 0) => <>[](Reported # "false")

=============================================================================
