------------------------------ MODULE Retention ------------------------------
(***************************************************************************)
(* The daily retention run (ingestion/retention_cleanup.py --execute): the *)
(* expired datasets, the pending deletion requests, the expired originals  *)
(* of the vault, then the audit log.  Every statement commits on its own,  *)
(* Qdrant's errors are swallowed, and any other error ends the run, to be  *)
(* started again the next day.  An operator may start the same program by  *)
(* hand while the job runs.                                                *)
(***************************************************************************)
EXTENDS Naturals

CONSTANTS
  Datasets,    \* datasets; the row of documents_meta a dataset may have has its id
  Expiring,    \* the datasets whose retention ends within 30 days
  Requests,    \* rows of deletion_requests
  Linked,      \* the datasets of each request's data subject
  Named,       \* the datasets all of whose points have its id as dataset_id in their payload
  Large,       \* the datasets with more points than one scroll returns (10000)
  Job,         \* the run the scheduler starts every night
  Manual,      \* the run an operator starts
  MaxErrors    \* bound on failed calls to Qdrant and runs cut short

ASSUME RetentionAssumption ==
  /\ Expiring \subseteq Datasets
  /\ Linked \in [Requests -> SUBSET Datasets]
  /\ Named \subseteq Datasets
  /\ Large \subseteq Datasets
  /\ Job # Manual
  /\ MaxErrors \in Nat

VARIABLES
  has,      \* the datasets each store holds something of
  expires,  \* how far off a dataset's retention date is
  vaultDue, \* datasets whose originals in the vault have expired
  status,   \* of each deletion request
  runs,     \* the local state of each run
  errors,   \* how many calls and runs failed
  missed    \* history: datasets whose vectors Qdrant failed to delete

retentionVars == <<has, expires, vaultDue, status, runs, errors, missed>>

-----------------------------------------------------------------------------
(* State *)

Runners == {Job, Manual}
NoItem == "none"
VaultStores == {"mapping", "original"}
Stores == {"vectors", "dataset_rows", "documents_meta", "datasets"} \cup VaultStores

Steps == {"idle", "expired", "vectors", "dataset_rows", "documents_meta", "datasets",
          "requests", "linked", "complete", "mappings", "audit"}

Rest == [at |-> "idle", queue |-> {}, item |-> NoItem, requests |-> {},
         request |-> NoItem, found |-> {}]

\* Vectors and vault rows exist for the datasets that have a documents_meta row.
RetentionInit ==
  /\ \E described \in SUBSET Datasets :
       has = [s \in Stores |->
                IF s \in {"dataset_rows", "datasets"} THEN Datasets ELSE described]
  /\ expires = [d \in Datasets |-> IF d \in Expiring THEN "month" ELSE "later"]
  /\ vaultDue = {}
  /\ status = [r \in Requests |-> "none"]
  /\ runs = [p \in Runners |-> Rest]
  /\ errors = 0
  /\ missed = {}

Goto(p, at) == runs' = [runs EXCEPT ![p].at = at]

\* Everything about the datasets in D leaves the stores in S.
Remove(S, D) == has' = [s \in Stores |-> IF s \in S THEN has[s] \ D ELSE has[s]]

-----------------------------------------------------------------------------
(* Deleting a dataset *)

ExpiringDatasets_Month == {d \in has["datasets"] : expires[d] # "later"}

\* The view lists what expires within 30 days, the query keeps what is due.
ExpiringDatasets == {d \in has["datasets"] : expires[d] = "due"}

StartRun(p) ==
  /\ runs[p].at = "idle"
  /\ runs' = [runs EXCEPT ![p] = [Rest EXCEPT !.at = "expired", !.queue = ExpiringDatasets]]
  /\ UNCHANGED <<has, expires, vaultDue, status, errors, missed>>

NextDataset(p) ==
  /\ runs[p].at \in {"expired", "linked"}
  /\ \E d \in runs[p].queue :
       runs' = [runs EXCEPT ![p].at = "vectors", ![p].item = d, ![p].queue = @ \ {d}]
  /\ UNCHANGED <<has, expires, vaultDue, status, errors, missed>>

\* Whose vectors are gone when the points one scroll found are deleted.  It filters by
\* dataset_id and reads no second page, so points without that key, as ingestion writes
\* them, stay, and so do those past the page, unless another run takes them.
Erased(d) ==
  IF d \notin Named THEN {{}}
  ELSE IF d \in Large THEN {{}, {d}}
  ELSE {{d}}

\* The collection is read from documents_meta: without that row nothing is asked.
\* An error of Qdrant is put into the report.
DeleteVectors(p) ==
  LET d == runs[p].item IN
  /\ runs[p].at = "vectors"
  /\ Goto(p, "dataset_rows")
  /\ \/ /\ \E gone \in Erased(d) : Remove({"vectors"}, gone \cap has["documents_meta"])
        /\ UNCHANGED <<errors, missed>>
     \/ /\ d \in has["documents_meta"]
        /\ errors < MaxErrors
        /\ errors' = errors + 1
        /\ missed' = missed \cup {d}
        /\ UNCHANGED has
  /\ UNCHANGED <<expires, vaultDue, status>>

AfterDelete_DatasetFirst(p) ==
  CASE runs[p].at = "dataset_rows"   -> "datasets"
    [] runs[p].at = "datasets"       -> "documents_meta"
    [] runs[p].at = "documents_meta" -> IF runs[p].request = NoItem THEN "expired" ELSE "linked"

AfterDelete(p) ==
  CASE runs[p].at = "dataset_rows"   -> "documents_meta"
    [] runs[p].at = "documents_meta" -> "datasets"
    [] runs[p].at = "datasets"       -> IF runs[p].request = NoItem THEN "expired" ELSE "linked"

\* ON DELETE CASCADE: the vault follows documents_meta, the rows their dataset.
Cascade(s) ==
  CASE s = "documents_meta" -> {s} \cup VaultStores
    [] s = "datasets"       -> {s, "dataset_rows"}
    [] OTHER                -> {s}

\* The three DELETEs.  The UPDATE of the audit log behind them matches no row: only
\* searches are logged with contains_pii, and their resource is a collection.
DeleteRows(p) ==
  /\ runs[p].at \in {"dataset_rows", "documents_meta", "datasets"}
  /\ Remove(Cascade(runs[p].at), {runs[p].item})
  /\ runs' = [runs EXCEPT ![p].at = AfterDelete(p),
                          ![p].item = IF AfterDelete(p) \in {"expired", "linked"}
                                      THEN NoItem ELSE @]
  /\ UNCHANGED <<expires, vaultDue, status, errors, missed>>

-----------------------------------------------------------------------------
(* Deletion requests, the vault, the audit log *)

FetchRequests(p) ==
  /\ runs[p].at = "expired"
  /\ runs[p].queue = {}
  /\ runs' = [runs EXCEPT ![p].at = "requests",
                          ![p].requests = {r \in Requests : status[r] = "pending"}]
  /\ UNCHANGED <<has, expires, vaultDue, status, errors, missed>>

NextRequest(p) ==
  /\ runs[p].at = "requests"
  /\ \E r \in runs[p].requests :
       runs' = [runs EXCEPT ![p].at = "linked", ![p].request = r,
                            ![p].queue = Linked[r], ![p].requests = @ \ {r}]
  /\ UNCHANGED <<has, expires, vaultDue, status, errors, missed>>

\* The points the request lists by id have no row of their own and are left out here.
\* The vault rows are looked up through documents_meta, whose rows are gone.
EraseLinkedVault(p) ==
  /\ runs[p].at = "linked"
  /\ runs[p].queue = {}
  /\ Remove(VaultStores, Linked[runs[p].request] \cap has["documents_meta"])
  /\ Goto(p, "complete")
  /\ UNCHANGED <<expires, vaultDue, status, errors, missed>>

CompleteRequest_NotRecorded(p) ==
  /\ runs[p].at = "complete"
  /\ runs' = [runs EXCEPT ![p].at = "requests", ![p].request = NoItem]
  /\ UNCHANGED <<has, expires, vaultDue, status, errors, missed>>

CompleteRequest(p) ==
  /\ runs[p].at = "complete"
  /\ status' = [status EXCEPT ![runs[p].request] = "completed"]
  /\ runs' = [runs EXCEPT ![p].at = "requests", ![p].request = NoItem]
  /\ UNCHANGED <<has, expires, vaultDue, errors, missed>>

FetchExpiredVault(p) ==
  /\ runs[p].at = "requests"
  /\ runs[p].requests = {}
  /\ LET found == has["original"] \cap vaultDue
     IN  runs' = [runs EXCEPT ![p].at = "mappings", ![p].found = found, ![p].queue = found]
  /\ UNCHANGED <<has, expires, vaultDue, status, errors, missed>>

DeleteMapping(p) ==
  /\ runs[p].at = "mappings"
  /\ \E d \in runs[p].queue :
       /\ Remove({"mapping"}, {d})
       /\ runs' = [runs EXCEPT ![p].queue = @ \ {d}]
  /\ UNCHANGED <<expires, vaultDue, status, errors, missed>>

DeleteOriginals(p) ==
  /\ runs[p].at = "mappings"
  /\ runs[p].queue = {}
  /\ Remove({"original"}, runs[p].found)
  /\ runs' = [runs EXCEPT ![p].at = "audit", ![p].found = {}]
  /\ UNCHANGED <<expires, vaultDue, status, errors, missed>>

\* The foreign keys leave no orphan in the vault.  An UPDATE of old audit rows is
\* refused by the append-only trigger: the run ends here whether there are any or not.
AnonymizeAuditLogs(p) ==
  /\ runs[p].at = "audit"
  /\ runs' = [runs EXCEPT ![p] = Rest]
  /\ UNCHANGED <<has, expires, vaultDue, status, errors, missed>>

\* A database error, or the end of the process.
Abort(p) ==
  /\ runs[p].at # "idle"
  /\ errors < MaxErrors
  /\ errors' = errors + 1
  /\ runs' = [runs EXCEPT ![p] = Rest]
  /\ UNCHANGED <<has, expires, vaultDue, status, missed>>

-----------------------------------------------------------------------------
(* Time and operators *)

RetentionPasses(d) ==
  /\ expires[d] = "month"
  /\ expires' = [expires EXCEPT ![d] = "due"]
  /\ UNCHANGED <<has, vaultDue, status, runs, errors, missed>>

VaultRetentionPasses(d) ==
  /\ d \in has["original"] \ vaultDue
  /\ vaultDue' = vaultDue \cup {d}
  /\ UNCHANGED <<has, expires, status, runs, errors, missed>>

RequestDeletion(r) ==
  /\ status[r] = "none"
  /\ status' = [status EXCEPT ![r] = "pending"]
  /\ UNCHANGED <<has, expires, vaultDue, runs, errors, missed>>

RunStep(p) ==
  \/ NextDataset(p) \/ DeleteVectors(p) \/ DeleteRows(p) \/ FetchRequests(p)
  \/ NextRequest(p) \/ EraseLinkedVault(p) \/ CompleteRequest(p)
  \/ FetchExpiredVault(p) \/ DeleteMapping(p) \/ DeleteOriginals(p)
  \/ AnonymizeAuditLogs(p)

RetentionNext ==
  \/ \E p \in Runners : StartRun(p) \/ RunStep(p) \/ Abort(p)
  \/ \E d \in Datasets : RetentionPasses(d) \/ VaultRetentionPasses(d)
  \/ \E r \in Requests : RequestDeletion(r)

\* The scheduler starts the job every day, and only an error stops it.
RetentionFairness ==
  WF_retentionVars(StartRun(Job)) /\ WF_retentionVars(RunStep(Job))

RetentionSpec == RetentionInit /\ [][RetentionNext]_retentionVars /\ RetentionFairness

-----------------------------------------------------------------------------
(* Properties *)

RetentionTypeOK ==
  /\ has \in [Stores -> SUBSET Datasets]
  /\ expires \in [Datasets -> {"later", "month", "due"}]
  /\ vaultDue \subseteq Datasets
  /\ status \in [Requests -> {"none", "pending", "completed"}]
  /\ runs \in [Runners -> [at : Steps, queue : SUBSET Datasets,
                           item : Datasets \cup {NoItem}, requests : SUBSET Requests,
                           request : Requests \cup {NoItem}, found : SUBSET Datasets]]
  /\ errors \in 0..MaxErrors
  /\ missed \subseteq Datasets

\* The datasets vectors may be left of: Qdrant failed, or one scroll does not find
\* all their points.
Spared == missed \cup (Datasets \ (Named \ Large))

\* A run cut short leaves nothing a later run could not find: what leads to a row,
\* to vectors or to a pseudonym goes after it, but for the vectors that are spared.
NothingStranded ==
  /\ has["vectors"] \ Spared \subseteq has["documents_meta"]
  /\ has["dataset_rows"] \cup has["documents_meta"] \subseteq has["datasets"]
  /\ has["mapping"] \subseteq has["original"]

\* A request recorded as completed left nothing of its subject's datasets in any
\* table or in the vault, however two runs overlapped and wherever one before was cut
\* short (delete_dataset).  Of vectors it left none of a dataset whose points all carry
\* its id and fit into one scroll, but where Qdrant failed.
CompletedIsErased ==
  /\ NothingStranded
  /\ \A r \in Requests : status[r] = "completed" =>
       \A s \in Stores : Linked[r] \cap has[s] \subseteq (IF s = "vectors" THEN Spared ELSE {})

\* What docs/architecture.md says of the job, and what its code does not do: the
\* vectors go together with the rows.  Those of a completed request are gone, but
\* where Qdrant failed.
VectorsAreErased ==
  \A r \in Requests : status[r] = "completed" => Linked[r] \cap has["vectors"] \subseteq missed

\* Nothing is erased before its time: what leaves a store belongs to a dataset
\* that is due or that a request names, or it is in the vault and expired.
ErasesOnlyWhatIsDue ==
  [][\A s \in Stores : \A d \in has[s] \ has'[s] :
       \/ expires[d] = "due"
       \/ \E r \in Requests : status[r] # "none" /\ d \in Linked[r]
       \/ s \in VaultStores /\ d \in vaultDue]_retentionVars

\* Whatever errors come first, every deletion request is completed, and every
\* dataset that is due and every expired original is erased.
ErasureHappens ==
  /\ \A r \in Requests : (status[r] = "pending") ~> (status[r] = "completed")
  /\ \A d \in Datasets :
       /\ (expires[d] = "due") ~> (d \notin has["datasets"])
       /\ (d \in vaultDue) ~> (d \notin has["original"])

=============================================================================
