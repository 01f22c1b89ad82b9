# A TLA+ verification of powerbrain

powerbrain is a self-hosted context engine: agents reach an MCP server, every
request is checked by OPA policies, personal data is pseudonymised at ingestion,
and every access is written to a tamper-evident audit log.  This directory holds
TLA+ modules that model the parts of it that hold shared state, the TLC
configurations that check them on small instances, and TLAPS proofs about them
for every instance.  Paths below are relative to the repository root.

## 1. The system

Processes: `mcp-server` (one asyncio event loop, in-process caches),
`ingestion` (FastAPI), `pb-worker` (APScheduler, seven jobs), optional
`pb-proxy` (chat gateway), `reranker`; stores: PostgreSQL (tables, triggers, the
Apache AGE graph), Qdrant (vectors), OPA (policies and their data).  Nothing
spans two stores in one transaction; inside PostgreSQL most statements are
autocommitted.

| Component | State | Operations | Hard behaviour |
|---|---|---|---|
| Audit hash chain (`init-db/014,022,023,025,026`, `worker/jobs/audit_retention.py`) | `agent_access_log`, `audit_tail`, `audit_archive` | insert trigger, prune, forced reset, verifier | concurrent writers serialised by one row lock; transaction start time against commit order; seeds after prune and reset |
| Audit integrity status (`init-db/024`, `worker/jobs/audit_integrity_status.py`, `mcp-server/server.py` snapshot) | `audit_integrity_status` (one row) | worker refresh, error path, snapshot | verifier's statements see different snapshots; stale answer after an error |
| Audit locks | PostgreSQL table and row locks | writer, prune, reset | lock order, deadlock detector |
| Circuit breaker (`server.py` 1978-2036, `init-db/015`) | `pb_circuit_breaker_state`, per-process cache with a 5 s TTL | read with refill, set, restart, fail-open | refill in flight across an activation; several processes |
| Approval queue (`server.py` 2039-2140, 3090-3206, `worker/jobs/pending_review_timeout.py`) | `pending_reviews` | request, list, approve or deny, poll, hourly expiry | two admins and the worker decide the same review |
| Lookup caches and policy updates (`server.py` 503-523, 683-724, 959-1047, 2392-2422, 4031-4243; `pb-proxy/auth.py`; `shared/embedding_cache.py`) | TTL caches of decisions, redacted fields, graph keys, transparency report, API keys, embeddings; policy data in OPA | look up with refill, update, clear, evict | refill in flight across an update; a failure cached like an answer |
| Access, summarisation, redaction policies (`opa-policies/pb/*.rego`, `server.py` 568-605, 906-940) | none | pure decisions | default and missing cases |
| Ingestion pipeline (`ingestion/ingestion_api.py`, `quality.py`) | `documents_meta`, vault tables, Qdrant points, `ingestion_rejections` | ingest with many early returns | failure between steps leaves rows in one store and not in another |
| PII text (`ingestion/pii_scanner.py`, `shared/pii_verify_provider.py`, `pb-proxy/pii_middleware.py`, vault resolution in `server.py`) | none kept; the request's reverse map, the vault's mapping | scan, verify, pseudonymise or mask, restore | overlapping hits; a second analysis after the verifier; shifting positions |
| Deletion (`server.py` delete_documents, graph tools) | Qdrant, PostgreSQL, graph | delete by filter | steps of several stores, each failing alone |
| Retention and erasure (`ingestion/retention_cleanup.py`, `worker/jobs/gdpr_retention.py`) | datasets, vault, deletion requests | four phases once a day | a raising request blocks the phases after it |
| Repository sync (`ingestion/sync_service.py`, `git_adapter.py`, `adapters/office365`) | `repo_sync_state`, remote repository | full and incremental sync, manual trigger | worker and manual sync at once; crash between ingest and SHA update |
| OAuth provider (`mcp-server/oauth_provider.py`, `init-db/013`) | pending logins, codes, access tokens in memory; refresh tokens in PostgreSQL | authorise, callback, exchange, refresh, revoke, clean-up, restart | revocation racing a refresh; state lost at restart |
| Rate limiter (`server.py` 322-440) | token buckets | consume, clean-up | limits and roles changing |
| Privacy incidents (`server.py` 3400-3835, `init-db/006`, `worker/jobs/incident_deadline_check.py`) | `privacy_incidents` | report, assess, notify, list, deadline job | assessment racing notification |
| Proxy (`pb-proxy/`) | key cache, tool list, per-request reverse map and conversation | authenticate, attachments, agent loop, tool calls, PII round trip | names come and go in plain over several turns; two maps of the same names; partial failure of tools |
| Worker scheduler (`worker/scheduler.py`) | job table | seven periodic jobs | coalescing, one instance per job |
| Search pipeline and tool dispatch (`server.py` 540-672, 1040-1470, 2143-3880) | the call's hits, decisions and audit entries | gates, search, rerank, originals, entry, summary; the other tools | the fall-back must not undo the filter; a failure between a disclosure and its entry |
| Knowledge graph (`mcp-server/graph_service.py`) | AGE graph, sync log | CRUD | AGE and log in two statements |
| Snapshots (`ingestion/snapshot_service.py`) | Qdrant snapshots, metadata | create, list | partial failure |
| Compliance document, telemetry, metrics, demo, evaluation, adapters' wire formats | none | rendering, I/O | none a model helps with |

How they interact: `mcp-server` writes the audit log on every tool call, reads
the breaker and the policy caches before it touches data, calls `ingestion` for
PII scans and OPA for decisions; `pb-worker` calls SQL functions and the
ingestion HTTP API; `pb-proxy` calls `mcp-server` tools and `/vault/resolve`.
The tables above are the only shared state between processes.

What makes each component correct is written as properties in its module; the
dangers they are aimed at are the "hazards" of `PROJECT.json`, each with the
line where it bites.

## 2. Plan

Most important behaviour first; all of this is in the directory.

1. `AuditLedger`, `AuditChain`: the append-only ledger and the tables that
   implement it; `AuditChain_proofs`.
2. `AuditStatus` (the worker's unlocked refresh, composed with `AuditChain`) and
   `AuditLocks` (the lock order of the same functions); `AuditLocks_proofs`.
3. `CircuitBreaker`, proved in `Tools_proofs`.
4. `ReviewOutcomes`, `ReviewQueue`; `ReviewQueue_proofs`, with the refinement.
   `MCQueues` checks them in one run with `AuditLocks`.
5. `Ingestion`, beside bulk deletion; `Ingestion_proofs`.  `MCGates` checks it in one
   run with `CircuitBreaker`.
6. `Retention` and `RepoSync`, the two jobs that write to several stores, checked
   in one run through `MCStores`; `Stores_proofs`.
7. The request paths, checked in one run through `MCServices`: `LookupCaches`,
   `Proxy`, `OAuth`, `Incidents`, `RateLimiter`, `ToolCalls`, `PiiText`;
   `Access_proofs` (caches, proxy, OAuth), `Tools_proofs` (tool calls, incidents,
   limiter, with the kill-switch), `PiiText_proofs`.

Every safety property that a passing run checks is a theorem (section 5).  What could
follow: several tool calls in one turn of the proxy, and the vault's resolution of
tool results (which puts originals in plain into the chat, by design, so that
`NamesAreHidden` is about requests without it); an ingestion under way during a bulk
deletion, the one hazard without a property; and the snapshot program if it is ever
run by a job.

## 3. Modules

### AuditLedger (abstract)

What a tamper-evident log promises: one sequence that only grows by one entry at
a time, an oldest part of which retention drops from the live table, until a
continuity reset seals it or a genesis reset starts it over.

### AuditChain

`agent_access_log`, `audit_archive` and `audit_tail` are the tables; `began` is
each session's open transaction (its `now()`), `clock` hands out those times,
`damages` counts rows altered outside the application.  A digest is the sequence
of everything hashed into it, so two digests are equal exactly when SHA-256
inputs are (collision freedom is assumed).  One action per operation:
`LogAccess` is the INSERT with the trigger of 022, `Prune`/`PruneNothing` are
`pb_audit_checkpoint_and_prune`, `ContinuityReset`/`GenesisReset` are
`pb_audit_force_reset` of 026 (which replaced 025), `Begin` and `Rollback` are
the transaction around them.  Everything a session does between taking the row
lock on `audit_tail` and committing is one step: the others wait for that lock
and see only committed rows.  What is not atomic is the gap between the
transaction's start, which fixes `created_at` and `archived_at`, and that step.
`VerifyWhole`, `VerifyRange` and `VerifyTail` are the verifier of 023 and its
tail variant; its reads are parameters of the operators underneath.

### AuditStatus

EXTENDS `AuditChain` with `job` (where the worker's refresh is and what its
queries returned), `audit_integrity_status` (the row), `errors`, and the ghost
`overlap`.  `pb_verify_audit_chain` takes no lock and is `VOLATILE`, so each
of its queries has a snapshot of its own: `ReadStart`, `ReadPrevRow`,
`ReadArchive`, `ReadRows` and `ReadTail` are separate steps and every action of
`AuditChain` may come between.  `StoreResult` is the UPSERT, `RefreshFails` and
`StoreError` the error path, `WorkerRestarts` loses the call.

### AuditLocks

The same functions as sequences of lock requests: `InsertLocks` (table ROW
EXCLUSIVE, then the tail row), `PruneLocks` (tail row, then table),
`ResetLocks` (tail row, table, then ACCESS EXCLUSIVE for TRUNCATE) and
`VerifyLocks`.  `holds`, `waiting` and `ahead` are PostgreSQL's lock
table (external): a request waits for conflicting holders and for conflicting
requests queued before it; the deadlock detector aborts a member of a cycle.

### CircuitBreaker

`active` is the row, `cache` the module global of each server process, `task`
what each request or administrator's POST is doing.  A read of the row is three
steps (`StartWithFetch`, `ReadRow` or `ReadFails`, `StoreState`) because the
coroutine gives way at the await; dropping the cache and testing it again is one
(`Reread`) because it does not.  `lastOff`, `announced`, `late` and `disturbed`
only record history for the properties.  The clock `now` is discrete and does not go
back (`time.time()` may; that is left out).

### ReviewOutcomes (abstract) and ReviewQueue

`ReviewOutcomes` promises that a review is opened once and closed once.
`ReviewQueue` has the rows (`row`), each agent's call and ticket (`agent`,
`polled`), each admin's call (`admin`), the audit entries about single reviews
(`audit`) and the clock.  Each SQL statement is a step; the audit entry that
follows it is another; a call may fail between them and the answer of a
committed statement may be lost (`ok = FALSE`).  An admin decides on a review
that was listed earlier, so the listing may be stale; two UPDATEs of one row wait
for each other in PostgreSQL and test `status = 'pending'` again, which makes
`Decide` and `Sweep` atomic.  A review past `expires_at` that the sweep has not
met yet can still be decided: the code tests only the status.

### Ingestion

`ingest_text_chunks` and `delete_documents` over the stores they share: `rows`
(`documents_meta`), `salts` (`pii_vault.project_salts`), `vault` (originals and
mappings, which one transaction writes), `points` (Qdrant), `rejections`.  `call`
says where each ingestion is: `InsertRow`, then for every chunk with personal
data the privacy decision (`AskPrivacy`, once), `Mask` or the salt (`ReadSalt`,
`InsertSalt`, `RereadSalt`) and `StoreInVault`; then `Gate`, with
`RecordRejection` and `RemoveRejected`, or `UpsertChunks`, two `UpsertLayer` and
`Finish`.  `deletion` is `StartDelete` (the ids), `DeletePoints` and
`DeleteMatching` (filter evaluated again).  Each request to a store is a step; it
is done, fails, or is done while its answer is lost (`Outcomes`), and the step
says whether the code swallows or raises that.  `NewRow` has no project because
the INSERT names no such column.  `stray` and `before` record history for the
properties.  Text is abstract: which chunks hold personal data, what the policy
and the gate say, and whether a layer is made are inputs.

### Retention

`retention_cleanup.py --execute`, by the job and by an operator at once (`runs`).
`has` is what each store holds of each dataset; the row of `documents_meta` a
dataset may have has the dataset's id, as the program assumes.  A run goes
through its phases statement by statement: `DeleteVectors`, whose error is put
into the report (`missed`), then three `DeleteRows` with their cascades for each expired or
requested dataset, then `EraseLinkedVault` and `CompleteRequest`, the expired
originals (`FetchExpiredVault`, `DeleteMapping`, `DeleteOriginals`), and
`AnonymizeAuditLogs`, which the append-only trigger always refuses.  `Abort` is an
error of the database or the end of the process between any two statements.
The vectors of a dataset are found by a scroll for `dataset_id` in the payload, one
page of 10000: `Named` are the datasets whose points carry it (those the repository's
own ingestion writes do not), `Large` those with more points than the page, which
lose some of them and keep the rest (`Erased`).
Points a deletion request lists by id are left out; no row stands for them.

### RepoSync

`POST /sync` (`Scheduled`, the job) and `POST /sync/{repo}` (`ByHand`).  `trees` is
the repository, commit by commit; `feed` the items of the Office 365 source;
`state` and `links` the rows of `repo_sync_state`, `stored` what was ingested.
A call claims the row (`BeginSync`), reads the head and the recorded commit,
deletes and fetches what changed in between, ingests document by document
(`IngestNext`: a failed one is logged and dropped) and records the head it read
first (`RecordHead`), whatever was pushed or recorded meanwhile; then it does the
Office 365 source.  `GraphRequest` is the adapter's retry loop; the filters of the
adapters are the operators `GitDrops`, `DriveDrops` and so on.  `SyncFails` and
`SourceFails` are the error paths, `LoseCall` a call that ends with its process and
leaves "syncing".  The deletion of removed files finds no rows (finding 2), so
nothing leaves `stored`.  GitHub's comparison is taken to be complete, which it is
up to 300 files.

### LookupCaches

One key of one of six caches (`kind`): what the source says now (`version`), what is
kept (`entry`) and each lookup under way.  A lookup is two steps with the await
between them, so that policy updates, changes of the source, evictions and other
lookups come in between, and it stores what it got however old that is.  The
kinds differ in what is kept of a failure, from when an entry is dated, which is
bounded in number and which `manage_policies` clears: operators of the module
(`Negative`, `DatedFrom`, `Bounded`, `ClearedByUpdate`) say which.  `PutUnanswered` is an
update OPA took whose answer was lost: nothing is cleared.  A lookup lasts at
most `MaxLookup`, the clients' timeouts.

### Proxy

One conversation through either chat handler.  A text is the set of names in it,
each in plain or as this request's pseudonym; a message is a string or a list of
parts with at most one file, and `rest` is what stands beside its content and is
never scanned: the arguments of an earlier answer's tool calls, the sender's name.
`mapped` is the handler's reverse map and `loopMap`
the agent loop's, which is the same object only when the first is not empty
(`Extend`).  The steps are the handler's: `Deny` or `Accept`, `ExtractDocuments`,
`FilterNonText`, `PseudonymizeMessages`, then the loop (`Answer`, or `AskForTool`,
`CallTool` with the names restored, `ScanResult`, `TakeResult`), with the failure of
every one of them.  Of each turn one tool call is modelled.  Restoration reaches the
string values of the arguments and of the lists in them; dictionary keys and lists
within lists go to the tool as they are, and a result may repeat any pseudonym of the
chat that stood there (`CallTool`).

### OAuth

One login with its session, code, access tokens and refresh token.  Handlers give
way at each SQL statement only: `SubmitKey`, `IssueCode`, `ExchangeCode`/`StoreGrant`,
`ReadRow`/`GrantAccess`/`SlideExpiry` or `FindExpired`/`DeleteExpired`,
`StartRevocation`/`DeleteRevoked`, `CleanMemory`/`CleanRows`.  `Restart` loses memory and
keeps the row.  A token's life is discrete time; `MaxDelay` is how long a
statement may take.  `used` and `spoiled` record history for the properties.

### Incidents

`incident` holds the rows.  A tool call is one UPDATE, but an assessment reads the
row, awaits OPA and writes (`StartAssessment`, `FinishAssessment`), and its write
keeps the history it finds in the row while it replaces the status (the rule is
`WithStatus`).  `CheckDeadlines` is the job; `gauge` what it shows.

### RateLimiter

A request is one step, since nothing in it awaits.  `Admit` and `Reject` refill and
test the bucket, every `CleanupEvery`th request drops idle buckets first, and
`PassOnError` is the request whose own bucket was dropped between lookup and use:
the error is caught and the request passes.  `allowance` is what a bucket nobody
ever drops would hold.  A tick is the time a token takes to come back.

### ToolCalls

One tool call.  `Handler` says of every tool what its handler does: which gate
(`Passes`), whether it ends early, whether it writes an entry, also of a refusal, what
happens when it raises; `done` is whether it did its work.  `ReleasedIsPermitted`
reads gates, entries and `done`. For searches the hits are explicit: `Find` (any
order, which covers scores and boosts), one `Judge` per hit in any order as the
concurrent requests to OPA answer, `Rerank` or `KeepOrder` when the reranker fails,
originals from the vault one by one, each with its entry (`OpenOriginal`,
`FileAccess`), and the audit entry. The summary is one step (`Summarise`): whatever it
adds, takes or fails at, it discloses no hit that is not among the ranked
ones.  Administrators change the policy meanwhile (`UpdatePolicy`).  The kill-switch,
the approval queue, deletions, incidents and the decision cache in front of it are in
their own modules.

### PiiText

One text and the hits a scan may give: `EndScan` keeps hits that do not overlap,
longest and most certain first; `VerifyHits` takes any rejections of the language
model; `AnalyzeAgain` is the second analysis, which `pseudonymize_text` and
`mask_text` make whatever the verifier said, so that `kept` may have hits that
`flagged`, the scan result, no longer has; `Pseudonymize` and `Mask` replace from the
right; `RestoreChat` and `ResolveFromVault` turn back.  Presidio's engine may join two
masked hits of one type with nothing but blanks between them into one placeholder;
the texts of the model have no blanks.  The recognizers are an input: any set of up to
`MaxHits` hits.

### MCGates, MCQueues, MCStores, MCServices

Their parts share no state, so one part moves in each behaviour (`part`) and the
others rest at one initial state: the run visits the sum of the instances and not
their product, and its properties say of each part what a run of its own would.
The other `MC` modules give constants their values.

## 4. Runs

| Run | Question and result (distinct states) |
|---|---|
| `AuditChain` | two writers, one session that prunes or resets, six transactions, one altered row (489 000).  Live rows stay gapless and linked up to the tail pointer; an unaltered chain verifies whole, by range and by tail; the oldest altered row is the one reported; the prune never deletes it; the tables implement `AuditLedger`. |
| `AuditChainTwoCheckpointers` | the same with two checkpointing sessions: the verifier rejects an honest chain (finding 1). |
| `AuditStatus` | one writer, one checkpointing session, one altered row and the refresh job, with errors and restarts (868 000).  Writers alone never make the job report a break while the log has rows; an altered row that stays in the tail is eventually reported; a false alarm goes away. |
| `Queues` | an agent, two admins, the sweep, two reviews, one failure; and two writers, a prune, a forced reset and a verifier on the audit log's locks (670 000).  Decisions are final, everything told or logged agrees with the rows, every review ends, the table implements `ReviewOutcomes`; changes to the chain are serialised, every deadlock involves the reset, every call ends. |
| `Gates` | two ingestions and a deletion, one failing or unanswered request; and the kill-switch of two processes, one request in each, an administrator, a failing read or restart (3.5 million).  One salt per project, references into the vault resolve, refused documents leave nothing and nothing uncleared is searchable, a reported deletion of everything erases what was there before it; no request that starts a TTL after the row was last off or unreadable is admitted, and a POST nobody disturbs answers what it set. |
| `IngestionProject` | a deletion by project leaves the rows and the originals (finding 2). |
| `Stores` | the retention job beside a run by hand, one error anywhere; the scheduled sync beside one by hand, two commits, one failing request or lost call (397 000).  A completed request left nothing but the vectors that one scroll cannot find or Qdrant failed to delete, and nothing is stranded; nothing is erased before its time and everything due is in the end; what the row of a repository records was ingested, and the index catches up with the last commit. |
| `RetentionVectors` | a completed deletion request leaves the vectors that ingestion wrote, though Qdrant never failed (finding 5). |
| `Office365` | after the first sync of an Office 365 source nothing is fetched (finding 3). |
| `Services` | the request paths, each at its own bounds (2.9 million).  Cached answers are at most a TTL and a lookup old, and a policy update reaches every lookup it should; the model sees names in plain only where nothing is scanned (parts of lists, what stands beside a content, results no scanner looked at), and where the proxy restores it has every name; one grant per login, refresh tokens survive what they should and stay revoked; notifications stay on record and no deadline slips uncounted; a dropped bucket gives one request at most; what a tool releases was permitted and is on record; what is replaced in a text are whole words of hits, with every letter outside them kept, and it is restored letter for letter. |
| `ProxyAnswer` | an answer can hold pseudonyms when the conversation had no name and a tool result has one (finding 4). |
| `VerifiedText` | a word whose hits the verifier rejected is replaced beside a confirmed one (finding 6). |

Each module also has a type invariant, which is in no run.  Most are theorems or
parts of the inductive invariants of section 5; the invariants about `AuditStatus`,
`ToolCalls`, `RepoSync` and `PiiText` carry a typing of their own (`StatusTypes`,
`Sorted`, `SyncTypes`, `HitsKnown`).

Bounds.  Six transactions let a prune be followed by inserts, a reset and a
second prune with both writers' transactions open across them, which is what the
seeds and the id order can go wrong with; one altered row suffices because
`FirstInvalid` stops at the first; two payloads are enough to alter a row.
Writers and payloads are interchangeable (symmetry); the properties are safety
properties.

`Gates`: the kill-switch needs `MaxNow > TTL` so that a request can start after the
bound it is about; `TTL = 2` leaves room for a read that takes a tick.  `Queues`: a
review opened at tick 0 is overdue at tick 3 (`Timeout = Grace =
1`) and the boundary ticks 1 and 2 are visited; two admins and the sweep are all
who can close a review at once.  Runs that check liveness use no symmetry.

In `Gates` there are also two ingestions of one project (the salt race, and one under way
while the other is deleted), two chunks (a block after an original was stored),
two salts, and one failing request, which may be any of them; the theorems cover
the rest.  Two deletions at once are left to the theorems.

`Stores`: two datasets, one of which expires, and a request that names both let
the expiry of one meet the request for both in another run; the points of both carry
their dataset's id, and those of one exceed the scroll; one error may be any
call or the end of any run.  Two files and two commits give a sync that is
overtaken by a commit and by another sync; one failure may be a file, a request
or the call itself.

`Services`, part by part.  Two lookups at a TTL of 2 and a clock to 4 let an answer be
read, stored late and served until it expires, by the other lookup, with an update
anywhere; one failure.  The six conversations are one of each shape the handlers tell
apart (nothing, a name in a string, in a part, beside a file, in a part beside another
message, in the arguments of an earlier tool call); two iterations are a tool call
whose result is scanned before the model speaks again.  Every OAuth lifetime is 1 or 2
of 4 ticks, so that each token expires and is cleaned up within the run; two submits
and two refreshes race, with one restart and one failed statement.  One incident with
two assessments and both notifications passes all three thresholds of the deadline
job.  Two agents with capacities 2 and 3 empty their buckets and leave them idle
beyond the limit 4, with a clean-up every third request.  Three chunks and `TopK = 2`
make the answer shorter than what was found.  Texts of four letters with up to three
hits hold every kind of overlap of two hits, a word that comes twice and one within
another.  Submits and refreshes are interchangeable (symmetry), and the run checks
invariants only.

Fairness.  `FairStatusSpec` assumes that the scheduler starts the refresh again
and again and that its queries end (`JOB_SPECS`, every 60 s; a job that raises
is logged and rescheduled); errors are finitely many.  `LockFairSpec` assumes that
a session that can go on does, that PostgreSQL grants what it can grant and that
its detector breaks a circle.  `FairSpec` of `ReviewQueue` assumes that time passes and that
the hourly sweep runs (`JOB_SPECS`); nothing is assumed of agents or admins.
`QueuesSpec` asks the same of the part that moves.
`Stores` assumes that the scheduler starts the retention job daily and the sync
every few minutes (`JOB_SPECS`; one instance of each at a time) and that a run
which is not cut short goes on; nothing is assumed of runs by hand.

What the properties leave open, by their own words.  `UpdatesTakeEffect` excepts the
refill that was under way when the cache was cleared; only `AnswersAreRecent` bounds
it.  `AuditAgrees` asks that entries be true and not that every decision have one: a
call may end between the UPDATE and its entry.  `RefreshSurvives` promises the row to within
`MaxDelay` of the lifetime's end, and `RevocationHolds` excepts the refresh that had read the row
before the revocation and writes it back.  `ErasureHappens` speaks of rows and originals,
not of vectors.  `NamesAreHidden` and `PseudonymsStayInside` say where the proxy does not
look (section 6 has both).

Deadlock is not checked where a bound on transactions, time or failures ends every
behaviour, or a single call, request or text is followed to its end
(`CHECK_DEADLOCK FALSE`).

## 5. Proofs

`AuditChain_proofs` proves for every set of writers, checkpointers and payloads,
and without the bounds:

* `TypeCorrect`; `ChainAlwaysLinked` (the inductive invariant is `ChainLinked`
  together with the shape of each row);
* `HonestChainVerifies`, under `OneCheckpointer`.  `VerifyWhole` is not
  inductive: the walk depends on the oldest live row's `prev_hash` being the seed
  of the newest checkpoint, on checkpoint times being below every open
  transaction that can still write one, and on every undamaged row hashing to
  its `entry_hash`; the strengthening carries those three facts.  The hypothesis
  `OneCheckpointer` is what `AuditChainTwoCheckpointers` shows to be needed;
* `HonestRangesVerify`, under the same hypothesis: a range that does not begin at the
  head has for its seed the row before it, which is what its first row continues
  (`ExpectedIsPrev`), so the walk over a range finds no more than the walk over all;
* `DamageAlwaysLocated`, under the same hypothesis: as long as every checkpoint
  verified or came from a reset (`Sound`), the seed is what the oldest row
  continues (`SeedInv`), also after rows were altered, so that the rows where the
  walk breaks are altered ones (`BreaksAreDamaged`) and the oldest altered row is
  one of them; the oldest exists because the ids are well-founded;
* `DamageIsNeverPruned` and `RemovalAlwaysCheckpointed`;
* `WritersNeverAlarm`, about `AuditStatus`, under the same hypothesis.  `RefreshInv`
  adds to the invariants above what the job knows between its queries: while no
  prune or reset committed since its start, the row it began with is still there,
  its seed is the one the verifier would take now, and if it walked no row the log
  was empty then;
* `ChainImplementsLedger`: initial states and steps of the tables map to
  `AuditLedger`.

`AuditLocks_proofs`, for any number of sessions: `TypeCorrect`; `ChangesSerialised`
(whoever has read the tail holds its row lock, and two holders conflict); and
`DeadlocksNeedReset`.  The table locks of writers, prunes and verifiers do not
conflict, so in a circle of them each waits for the row of `audit_tail`, and none
that waits for it holds it: each would stand behind another in its queue.  The
invariant `QueueOrdered` says that of any waiting sessions one stands behind none of
the rest.

`Tools_proofs`, part `CircuitBreaker`: `BreakerTypes`; `RefusedEverywhereAfterTTL` from the
invariant `OffIsDated` (what is not "on" in a cache, or read and not stored yet,
is dated no later than the last moment the row was off or unreadable), without
which a slow read could extend the TTL; `PostAnswersWhatItSet` from `SetIsRead`.
They assume `TTL > 0` and that requests and administrators are different tasks.

`ReviewQueue_proofs`: `RowMoves` says how any step changes a row and `RowStable`
that a closed row never changes; the three invariants `CallsKnow`, `LogKnows`
and `PollKnows` say that what a call holds between its statements, what the log
says and what was polled is in the row.  From them `AnswersAlwaysStand` and
`AuditAlwaysAgrees`; further `TypeCorrect`, `AlwaysExpiredLate` and
`QueueImplementsOutcomes`.

`Ingestion_proofs`, for any number of ingestions, deletions, projects and
failures: `TypeCorrect`, whose invariant `Typed` also says what a call's place
implies (a salt before it stores, everything handled before it embeds);
`SaltsAgree` (a salt in the table never changes, and what was used is it);
`ReferencesResolve` (a call's references have their originals while its row
lives); `RefusalsKeepNothing`, with the lemma `SearchableIsCleared` for the points;
and `DeletionsErase`,
from `OriginalsHaveRows` and `DeletionsProgress`: no step of an ingestion touches
a document that was over (`StepsOfIngestions`), so what the deletion removed in
one store is still gone when it is done with the next.

`Access_proofs`, part `LookupCaches`, for every TTL, number of lookups and kind of
cache, and without the bounds: `CachesTypes`; `AnswersStayRecent` from `RecentInv`
(what a lookup holds was read between its start and now, and an entry is dated at most
one lookup after its answer was read, so that neither storing nor serving adds to an
answer's life); `UpdatesReachLookups` from `UpdatesInv`, which follows a version from
the update through entry and lookups and is why the late ones have to be set apart.

`Access_proofs`, part `OAuth`, for every lifetime and delay and any number of
submits and refreshes: `LoginGrantsOnce`, `RefreshTokensSurvive` and
`RevocationsHold`, all from `OAuthInv`.  `OneAtATime` says that a login is a pending
session, a code, an exchange or a grant, in this order and only once; `RowLasts`
that the row of the refresh token lasts to within `MaxDelay` of what the client was
told, which needs `ClockRead`: every statement under way read the clock and the row
at most `MaxDelay` ago; `NobodyPutsBack` that after a revocation no refresh that had
read the row before is left.

`Access_proofs`, part `Proxy`, for any names, servers, requests and iterations:
`NamesStayHidden` (the conversation's parts, what stands beside its contents and the
results no scanner looked at are the only ways in; the theorem does not say that
nothing comes in by them) and `PseudonymsAreRestored` (of what restoration looks at),
from `ProxyInv`.  Everything the conversation and the answer hold is in plain or can
be turned back by the map of the loop (`Restorable`); the map of the handler, which
restores the answer, is the same map unless the first scan found nothing
(`MapsAgree`), which is the exception of finding 4.

`Tools_proofs`, part `ToolCalls`, for any chunks, policies and number of failures:
`CallInvariant` and `AnswersArePermitted`.  `CallInv` says that hits reach the
answer only through `cleared` (`Gated`), that originals are filed before anything
else happens (`Filed`), which tools answer without an entry (`OnRecord`), and that
no handler worked for a role its gate refuses or denied without the entry it keeps
(`Handled`).

`Tools_proofs`, part `Incidents`, for any incidents, assessments and deadlines:
`IncidentsAreNotLost`.  The history only grows, and
the flag for the authority is set exactly when a notification is in the row's course
(`RowTrue`), so that an assessment that overtakes it may change the status and not
the record; and whatever takes an incident out of the job's query while the authority
was not told is in the row's course.

`Tools_proofs`, part `RateLimiter`, for any capacities that fill within `IdleLimit`:
`LimiterInvariant` and `CleanupCostsOne`.  The invariant `Tracks` relates a bucket
to the one nobody drops: that one is at most one token behind, and has got back all
but one of the tokens of the idle time, so that it is as good as full when the
bucket is dropped.

`Stores_proofs`, part `Retention`, for any datasets, requests and runs that overlap
and are cut short: `CompletedRequestsErased`, from `ErasureInv` (what a run has
already been through is gone and stays gone, `ItemProgress` and `QueueProgress`,
whatever the other run erases; of vectors this holds where the points carry the
dataset's id and fit into one scroll, see finding 5); and the action property
`OnlyDueErased`, from `DueInv`: whatever a run has in hand or in its queue expired,
was requested or had an expired original when the run took it up, and none of these is
taken back.

`Stores_proofs`, part `RepoSync`, for any files, versions and callers:
`RecordedCommitIngested`.  `SyncInv` says of a commit that is recorded, or that a
call is about to record, that each of its files was ingested in this or a later
version, failed, has been removed since, or is still among the documents in the
call's hands (`CoveredBut`); a file changed between two commits has a version of its
own (`TreesEvolve`), so an incremental sync from a covered commit covers the next.

`PiiText_proofs`, for any texts, recognizers and hits: `TextsComeBack`, which says what is
replaced and given back whichever hits the second analysis keeps, and leaves the
verifier's verdict to finding 6.  The output
is a sequence of pieces; what it spells, its letters and what `Restore` makes of it
are each flattened from what the pieces contribute (`Gather`).  The library's
induction takes an operator as a parameter, so induction is stated over sets
(`NatSetInduction`, `SeqSetInduction`, both from the least element of a set of
naturals), and from it that flattening distributes over concatenation, element by
element.  `ReplaceStep` says what one replacement does to the pieces as long as they
are untouched up to the end of the hit; `Rewritten` is the invariant of the loop:
the hits that are left end before the ones that are done begin, which holds because
the kept hits do not overlap and are taken from right to left.  The only assumption
is that no entity type is the mark of a letter.

Model-checked only: the liveness properties (`DamageReported`, `FalseAlarmClears`,
`EveryCallEnds`, `EveryReviewEnds`, `ErasureHappens`, `SyncCatchesUp`): TLAPS proves
neither fairness nor ENABLED here.  The runs that expect a violation show what the
hypotheses and exceptions are for: two checkpointing sessions (finding 1), an answer
whose first scan found nothing (finding 4), points without their dataset's id
(finding 5).  `RemovalIsCheckpointed` and `ExpiredLate` are
proved and in no run.

## 6. Findings

Each is a run that must be violated; `PROJECT.json` quotes the sentence of the
repository it contradicts.

1. Two checkpointing sessions: `audit_archive` is ordered by transaction start,
   not by commit (`AuditChainTwoCheckpointers`).
2. `delete_documents` with a filter deletes vectors only: the columns it filters
   `documents_meta` by are never filled, so rows and vault originals stay
   (`IngestionProject`).  The same goes for files removed from a repository.
3. The delta links of Office 365 come back from PostgreSQL as text, so every sync
   after the first fetches nothing and is recorded as "ok" (`Office365`).
4. The agent loop replaces an empty reverse map by one of its own, so names first
   met in tool results are not turned back in the answer (`ProxyAnswer`).
5. A deletion request or an expired dataset leaves its vectors: they are looked up by
   a `dataset_id` in the payload that ingestion never writes (it writes `doc_id`), and
   of more than 10000 only the first page is deleted, while the rows that lead to
   them go (`RetentionVectors`).
6. What the verifier rejects is replaced all the same when another hit of the chunk is
   confirmed, since `pseudonymize_text` and `mask_text` analyse the text again; the
   vault, filled from the filtered result, cannot give those words back
   (`VerifiedText`).

Met while modelling, without a run of their own.

Audit and approval:

* the daily job verifies the tail only, not the full chain;
* the transparency snapshot can report a broken chain that never existed, when a
  checkpoint or the first insert commits between two queries of the verifier;
* the verifier's seed check fires on any empty range (`023:122`), so a range from
  the head that ends below the oldest live row is reported broken;
* a refresh that fails leaves the last answer in `valid`
  (`audit_integrity_status.py:68`), where `024:39` promises NULL;
* the reset's TRUNCATE can deadlock with an insert that holds the table and waits
  for the tail row, and the victim may be the insert (`DeadlockNeedsReset` names
  the reset as the only culprit), contrary to `025:15`;
* the kill-switch is not instant: a refill under way puts the old state back for
  at most one TTL (what `RefusedAfterTTL` bounds);
* `max_pending_per_agent` is read by no code, and an approved request is never run
  nor its result stored (`pending_reviews.result_payload` has no writer).

Ingestion, personal data and erasure:

* no code creates a row in `projects`, so no project salt can ever be stored, the
  error is swallowed, and pseudonyms differ even within a document;
* `min_confidence_keep` is stored and never used, though
  `pii_verify_provider.py:22-23` says it governs the cut;
* of two overlapping hits the longer is replaced, and the part of the shorter one
  outside it stays in plain text; a word with two types gets one type's tag and
  the other's row in the vault;
* anonymising old audit rows is an UPDATE the append-only trigger refuses, so the
  retention job fails at its last phase whenever there are any;
* `cleanup_old_snapshots` reads a JSONB column as if it were a dictionary
  (`snapshot_service.py:230-231`), and a snapshot with failed collections is stored
  as completed.

Lookups, tools and limits:

* the cache of graph keys is loaded once and `manage_policies` does not clear it,
  in spite of the docstring (`server.py:962-963`); `invalidate_cache` (`auth.py:99`) and
  `_invalidate_transparency_cache` (`server.py:4216`) have no callers;
* an update of a policy whose answer is lost changes the policy with no audit entry
  and no clearing;
* a required summary is decided by the first hit's classification, and the raw hits
  are kept when the summary fails (`server.py:2255-2258`), where the repository's
  `README.md:58` says "confidential = summary only, no raw text"; `get_document` looks at the first
  chunk only and does not log its denial;
* a handful of tools (data sets, classification, feedback, statistics, snapshots)
  write no audit entry; a mutation of the graph stands though its entry failed;
* a request whose own idle bucket the clean-up drops passes unmetered
  (`server.py:374-375`, `430-434`).

Proxy, OAuth, incidents:

* the arguments of tool calls that stand in the conversation, the sender's name and the
  client's own tool definitions are never scanned and reach the model as they came
  (`pii_middleware.py:47-50` looks at string contents only; `anthropic_format.py:60-75`
  makes such arguments of `tool_use` blocks);
* tools are called with pseudonyms in dictionary keys and in lists within lists, which
  restoration leaves (`pii_middleware.py:127-142`), where its docstring has "all string
  values" (line 115);
* lists of parts are never scanned, though a comment says the scanner sees them
  (`proxy.py:551-552`), and a refused attachment is replaced only in a copy that
  is not used;
* a call of a tool resolves by its name alone, also when its server was not offered
  to the role; after the last iteration the arguments of tool calls go back with pseudonyms;
* the loop reads `pii_resolve_tool_results`, which the policy `pb.proxy` does not
  export;
* the second of two submits of one login raises KeyError; a revocation that fails is
  swallowed; a refresh that met an expired token deletes it although it was
  renewed meanwhile;
* an assessment under way takes back the status a notification set (the history
  keeps it); notifying the persons concerned after the authority sets a status the
  deadline job counts as open, so that an incident notified in time turns up as
  overdue, contrary to `incident_deadline_check.py:18-20`; nothing sets "contained"
  or "resolved".

## 7. Not modelled

* The Rego policies: pure decisions over static data, inputs of every model here.
* The scheduler itself: it enters as fairness and as one process per job.
* The knowledge graph: what two concurrent MERGEs do is Apache AGE's semantics,
  which the repository does not hold; the tools in front of it are in `ToolCalls`.
* Snapshots: a sequential program started by hand.
* Reranker, embeddings and ranking quality: numerical; any order is taken instead.
* Transparency report and compliance document: rendering; the report's cache is in
  `LookupCaches`, its audit status in `AuditStatus`.
* API keys and static authentication: single statements.
* Content extraction, MIME detection, the Graph API's wire format: parsers.
* Telemetry, metrics, evaluation, demo, scripts, deployment: nothing reads back
  what they write.

Within modelled parts: SHA-256 (collision-free digests), text formatting, HTTP and
JSON, which words a recognizer finds, `/preview`, `/extract` and the quality score of
ingestion, the record variants of the scanner, client registration and PKCE of
OAuth, several tool calls in one turn and the vault's resolution of tool results
in the proxy, token acquisition and paging of the Office 365 adapter.
