---------------------------- MODULE Stores_proofs ----------------------------
(***************************************************************************)
(* Proofs about Retention and RepoSync, for any datasets, requests, files  *)
(* and items and whatever fails.                                           *)
(***************************************************************************)
EXTENDS Retention, RepoSync, TLAPS

(* Retention: a completed request has erased everything *)

Deleting == {"vectors", "dataset_rows", "documents_meta", "datasets"}

\* Of dataset d nothing is left but vectors that are spared.
Gone(d) == \A s \in Stores : d \in has[s] => s = "vectors" /\ d \in Spared

\* The request a run works on: the column is read only where it was set.
ServesRequest(p) ==
  \/ runs[p].at \in {"linked", "complete"}
  \/ runs[p].at \in Deleting /\ runs[p].request # NoItem

\* The datasets a run has taken up and not finished with.
Ahead(p) == runs[p].queue \cup (IF runs[p].at \in Deleting THEN {runs[p].item} ELSE {})

\* What a run has fetched or set for itself is what the step it is at needs.
WellPlaced(p) ==
  /\ runs[p].at \in Deleting => runs[p].item \in Datasets
  /\ ServesRequest(p) => runs[p].request \in Requests
  /\ runs[p].at = "complete" => runs[p].queue = {}
  /\ runs[p].at = "expired" => runs[p].request = NoItem

\* How far a run has got with the dataset in hand.
ItemProgress(p) ==
  /\ runs[p].at \in Deleting \ {"vectors"} /\ runs[p].item \in has["vectors"]
       => runs[p].item \in Spared
  /\ runs[p].at = "datasets"
       => \A s \in VaultStores \cup {"documents_meta"} : runs[p].item \notin has[s]

\* How far a run has got with the request, or with the vault.
QueueProgress(p) ==
  /\ ServesRequest(p) => \A d \in Linked[runs[p].request] \ Ahead(p) : Gone(d)
  /\ runs[p].at = "mappings" => runs[p].found \cap has["mapping"] \subseteq runs[p].queue

RunProgress(p) == WellPlaced(p) /\ ItemProgress(p) /\ QueueProgress(p)

CompletedGone ==
  \A r \in Requests : status[r] = "completed" => \A d \in Linked[r] : Gone(d)

ErasureInv ==
  /\ RetentionTypeOK
  /\ NothingStranded
  /\ CompletedGone
  /\ \A p \in Runners : RunProgress(p)

\* Why a run may delete what it has in hand or in its queue.
Due(d) == expires[d] = "due" \/ \E r \in Requests : status[r] # "none" /\ d \in Linked[r]

RunIsDue(p) ==
  /\ runs[p].at \in Deleting \cup {"expired", "linked"} => \A d \in Ahead(p) : Due(d)
  /\ \A r \in runs[p].requests : status[r] # "none"
  /\ ServesRequest(p) => status[runs[p].request] # "none"
  /\ runs[p].at = "mappings" => runs[p].queue \cup runs[p].found \subseteq vaultDue

DueInv == \A p \in Runners : RunIsDue(p)

-----------------------------------------------------------------------------
(* Retention: types *)

LEMMA RetentionTypeInit == RetentionInit => RetentionTypeOK
BY RetentionAssumption
   DEF RetentionInit, RetentionTypeOK, Rest, Steps, Stores, Runners

RunType == [at : Steps, queue : SUBSET Datasets, item : Datasets \cup {NoItem},
            requests : SUBSET Requests, request : Requests \cup {NoItem},
            found : SUBSET Datasets]

\* A run that moves keeps its type, and the other stays where it is.
LEMMA MoveType ==
  ASSUME RetentionTypeOK, NEW p \in Runners, NEW run \in RunType,
         runs' = [runs EXCEPT ![p] = run]
  PROVE  /\ runs' \in [Runners -> RunType]
         /\ runs'[p] = run
         /\ \A q \in Runners \ {p} : runs'[q] = runs[q]
BY DEF RetentionTypeOK, RunType

LEMMA GotoType ==
  ASSUME RetentionTypeOK, NEW p \in Runners, NEW at \in Steps, Goto(p, at)
  PROVE  runs' \in [Runners -> RunType]
<1>1. [runs[p] EXCEPT !.at = at] \in RunType
  BY DEF RetentionTypeOK, RunType
<1> QED
  BY <1>1 DEF Goto, RetentionTypeOK, RunType

LEMMA RemoveType ==
  ASSUME RetentionTypeOK, NEW S, NEW D, Remove(S, D)
  PROVE  has' \in [Stores -> SUBSET Datasets]
BY DEF Remove, RetentionTypeOK

LEMMA RetentionTypeStep ==
  RetentionTypeOK /\ [RetentionNext]_retentionVars => RetentionTypeOK'
<1>. SUFFICES ASSUME RetentionTypeOK, [RetentionNext]_retentionVars
              PROVE  RetentionTypeOK'
  OBVIOUS
<1>. USE RetentionAssumption DEF RetentionTypeOK, Steps
<1>1. ASSUME NEW p \in Runners, StartRun(p)
      PROVE  RetentionTypeOK'
  <2>1. ExpiringDatasets \in SUBSET Datasets
    BY DEF ExpiringDatasets, Stores
  <2>. QED
    BY <1>1, <2>1 DEF StartRun, Rest
<1>2. ASSUME NEW p \in Runners, NextDataset(p)
      PROVE  RetentionTypeOK'
  BY <1>2 DEF NextDataset
<1>3. ASSUME NEW p \in Runners, DeleteVectors(p)
      PROVE  RetentionTypeOK'
  <2>1. has' \in [Stores -> SUBSET Datasets]
    BY <1>3, RemoveType DEF DeleteVectors
  <2>2. runs' \in [Runners -> RunType]
    BY <1>3, GotoType DEF DeleteVectors, Steps
  <2>3. errors' \in 0..MaxErrors /\ missed' \subseteq Datasets
    <3>1. CASE errors' = errors /\ missed' = missed
      BY <3>1
    <3>2. CASE /\ errors < MaxErrors /\ errors' = errors + 1
               /\ missed' = missed \cup {runs[p].item}
               /\ runs[p].item \in has["documents_meta"]
      BY <3>2 DEF Stores
    <3>. QED
      BY <1>3, <3>1, <3>2, Zenon DEF DeleteVectors
  <2>4. UNCHANGED <<expires, vaultDue, status>>
    BY <1>3, Zenon DEF DeleteVectors
  <2>. QED
    BY <2>1, <2>2, <2>3, <2>4, Zenon DEF RunType
<1>4. ASSUME NEW p \in Runners, DeleteRows(p)
      PROVE  RetentionTypeOK'
  <2>1. has' \in [Stores -> SUBSET Datasets]
    BY <1>4, RemoveType DEF DeleteRows
  <2>2. AfterDelete(p) \in Steps
    BY <1>4 DEF DeleteRows, AfterDelete
  <2>. DEFINE item == IF AfterDelete(p) \in {"expired", "linked"}
                      THEN NoItem ELSE runs[p].item
              run  == [runs[p] EXCEPT !.at = AfterDelete(p), !.item = item]
  <2>3. runs[p] \in RunType /\ item \in Datasets \cup {NoItem}
    BY DEF RunType
  <2>4. run \in RunType
    <3>. HIDE DEF item
    <3>. QED
      BY <2>2, <2>3 DEF RunType
  <2>5. runs' = [runs EXCEPT ![p] = run]
    BY <1>4 DEF DeleteRows
  <2>6. runs' \in [Runners -> RunType]
    <3>. HIDE DEF run
    <3>. QED
      BY <2>4, <2>5, MoveType
  <2>. QED
    BY <1>4, <2>1, <2>6 DEF DeleteRows, RunType
<1>5. ASSUME NEW p \in Runners, FetchRequests(p)
      PROVE  RetentionTypeOK'
  <2>. DEFINE run == [runs[p] EXCEPT !.at = "requests",
                                 !.requests = {r \in Requests : status[r] = "pending"}]
  <2>1. {r \in Requests : status[r] = "pending"} \in SUBSET Requests
    OBVIOUS
  <2>2. run \in RunType /\ runs' = [runs EXCEPT ![p] = run]
    BY <1>5, <2>1 DEF FetchRequests, RunType
  <2>3. runs' \in [Runners -> RunType]
    <3>. HIDE DEF run
    <3>. QED
      BY <2>2, MoveType
  <2>. QED
    BY <1>5, <2>3 DEF FetchRequests, RunType
<1>6. ASSUME NEW p \in Runners, NextRequest(p)
      PROVE  RetentionTypeOK'
  BY <1>6 DEF NextRequest
<1>7. ASSUME NEW p \in Runners, EraseLinkedVault(p)
      PROVE  RetentionTypeOK'
  <2>1. has' \in [Stores -> SUBSET Datasets]
    BY <1>7, RemoveType DEF EraseLinkedVault
  <2>2. runs' \in [Runners -> RunType]
    BY <1>7 DEF EraseLinkedVault, Goto, RunType, RetentionTypeOK
  <2>. QED
    <3>1. UNCHANGED <<expires, vaultDue, status, errors, missed>>
      BY <1>7, Zenon DEF EraseLinkedVault
    <3>. QED
      BY <2>1, <2>2, <3>1, Zenon DEF RunType
<1>8. ASSUME NEW p \in Runners, CompleteRequest(p)
      PROVE  RetentionTypeOK'
  <2>1. status' \in [Requests -> {"none", "pending", "completed"}]
    BY <1>8 DEF CompleteRequest
  <2>. DEFINE run == [runs[p] EXCEPT !.at = "requests", !.request = NoItem]
  <2>2. run \in RunType /\ runs' = [runs EXCEPT ![p] = run]
    BY <1>8 DEF CompleteRequest, RunType
  <2>3. runs' \in [Runners -> RunType]
    <3>. HIDE DEF run
    <3>. QED
      BY <2>2, MoveType
  <2>. QED
    BY <1>8, <2>1, <2>3 DEF CompleteRequest, RunType
<1>9. ASSUME NEW p \in Runners, FetchExpiredVault(p)
      PROVE  RetentionTypeOK'
  <2>. DEFINE run == [runs[p] EXCEPT !.at = "mappings",
                                 !.found = has["original"] \cap vaultDue,
                                 !.queue = has["original"] \cap vaultDue]
  <2>1. has["original"] \cap vaultDue \in SUBSET Datasets
    OBVIOUS
  <2>2. run \in RunType /\ runs' = [runs EXCEPT ![p] = run]
    BY <1>9, <2>1 DEF FetchExpiredVault, RunType
  <2>3. runs' \in [Runners -> RunType]
    <3>. HIDE DEF run
    <3>. QED
      BY <2>2, MoveType
  <2>. QED
    BY <1>9, <2>3 DEF FetchExpiredVault, RunType
<1>10. ASSUME NEW p \in Runners, DeleteMapping(p)
       PROVE  RetentionTypeOK'
  <2>1. has' \in [Stores -> SUBSET Datasets]
    BY <1>10, RemoveType DEF DeleteMapping
  <2>2. PICK d \in runs[p].queue : runs' = [runs EXCEPT ![p].queue = @ \ {d}]
    BY <1>10, Zenon DEF DeleteMapping
  <2>. DEFINE run == [runs[p] EXCEPT !.queue = @ \ {d}]
  <2>3. run \in RunType /\ runs' = [runs EXCEPT ![p] = run]
    BY <2>2 DEF RunType
  <2>4. runs' \in [Runners -> RunType]
    <3>. HIDE DEF run
    <3>. QED
      BY <2>3, MoveType
  <2>. QED
    <3>1. UNCHANGED <<expires, vaultDue, status, errors, missed>>
      BY <1>10, Zenon DEF DeleteMapping
    <3>. QED
      BY <2>1, <2>4, <3>1, Zenon DEF RunType
<1>11. ASSUME NEW p \in Runners, DeleteOriginals(p)
       PROVE  RetentionTypeOK'
  <2>1. has' \in [Stores -> SUBSET Datasets]
    BY <1>11, RemoveType DEF DeleteOriginals
  <2>. DEFINE run == [runs[p] EXCEPT !.at = "audit", !.found = {}]
  <2>2. run \in RunType /\ runs' = [runs EXCEPT ![p] = run]
    BY <1>11 DEF DeleteOriginals, RunType
  <2>3. runs' \in [Runners -> RunType]
    <3>. HIDE DEF run
    <3>. QED
      BY <2>2, MoveType
  <2>. QED
    BY <1>11, <2>1, <2>3 DEF DeleteOriginals, RunType
<1>12. ASSUME NEW p \in Runners, AnonymizeAuditLogs(p) \/ Abort(p)
       PROVE  RetentionTypeOK'
  BY <1>12 DEF AnonymizeAuditLogs, Abort, Rest
<1>13. ASSUME NEW d \in Datasets, RetentionPasses(d) \/ VaultRetentionPasses(d)
       PROVE  RetentionTypeOK'
  BY <1>13 DEF RetentionPasses, VaultRetentionPasses
<1>14. ASSUME NEW r \in Requests, RequestDeletion(r)
       PROVE  RetentionTypeOK'
  BY <1>14 DEF RequestDeletion
<1>15. CASE UNCHANGED retentionVars
  BY <1>15 DEF retentionVars
<1>. QED
  BY <1>1, <1>2, <1>3, <1>4, <1>5, <1>6, <1>7, <1>8, <1>9, <1>10, <1>11, <1>12,
     <1>13, <1>14, <1>15 DEF RetentionNext, RunStep

-----------------------------------------------------------------------------
(* Retention: what a step may do to the stores and to the other run *)

\* Nothing comes back into a store, and no failure of Qdrant is forgotten.
StoresMove ==
  /\ \A s \in Stores : has'[s] \subseteq has[s]
  /\ Spared \subseteq Spared'

LEMMA SparedGrows ==
  ASSUME missed \subseteq missed'
  PROVE  Spared \subseteq Spared'
BY DEF Spared

LEMMA SparedRests ==
  ASSUME missed' = missed
  PROVE  Spared' = Spared
BY DEF Spared

LEMMA RemoveMoves ==
  ASSUME NEW S, NEW D, Remove(S, D), missed' = missed
  PROVE  /\ StoresMove
         /\ \A s \in Stores : has'[s] = IF s \in S THEN has[s] \ D ELSE has[s]
BY SparedRests DEF Remove, StoresMove

LEMMA GoneStays == StoresMove => \A d : Gone(d) => Gone(d)'
BY DEF StoresMove, Gone

\* What a run has done stays done while another moves.
LEMMA ProgressStays ==
  ASSUME StoresMove, NEW q \in Runners, RunProgress(q), runs'[q] = runs[q]
  PROVE  RunProgress(q)'
<1>1. WellPlaced(q)'
  BY DEF RunProgress, WellPlaced, ServesRequest
<1>2. ItemProgress(q)'
  BY DEF RunProgress, ItemProgress, StoresMove, Stores, VaultStores
<1>3. Ahead(q)' = Ahead(q) /\ (ServesRequest(q)' <=> ServesRequest(q))
  BY DEF Ahead, ServesRequest
<1>4. \A d : Gone(d) => Gone(d)'
  BY GoneStays
<1>5. QueueProgress(q)'
  BY <1>3, <1>4 DEF RunProgress, QueueProgress, StoresMove, Stores, VaultStores
<1>. QED
  BY <1>1, <1>2, <1>5 DEF RunProgress

LEMMA CompletedStays ==
  ASSUME StoresMove, CompletedGone,
         \A r \in Requests : status'[r] = "completed" => status[r] = "completed"
  PROVE  CompletedGone'
BY GoneStays DEF CompletedGone

\* Only the run that moves has to be looked at.
LEMMA OneRunMoves ==
  ASSUME ErasureInv, StoresMove, NEW p \in Runners, RunProgress(p)',
         \A q \in Runners \ {p} : runs'[q] = runs[q]
  PROVE  \A q \in Runners : RunProgress(q)'
BY ProgressStays DEF ErasureInv

\* A run that fetches or chooses: the stores and the requests rest.
LEMMA FetchKeeps ==
  ASSUME ErasureInv, NEW p \in Runners, RunProgress(p)',
         \A q \in Runners \ {p} : runs'[q] = runs[q],
         UNCHANGED <<has, status, missed>>
  PROVE  /\ NothingStranded'
         /\ CompletedGone'
         /\ \A q \in Runners : RunProgress(q)'
<1>1. StoresMove /\ Spared' = Spared
  BY SparedRests DEF StoresMove
<1>. QED
  BY <1>1, OneRunMoves, CompletedStays DEF ErasureInv, NothingStranded

-----------------------------------------------------------------------------
(* Retention: the steps of a run *)

LEMMA DeleteVectorsKeeps ==
  ASSUME ErasureInv, NEW p \in Runners, DeleteVectors(p)
  PROVE  NothingStranded' /\ CompletedGone' /\ \A q \in Runners : RunProgress(q)'
<1>. DEFINE d == runs[p].item
<1>1. /\ runs[p].at = "vectors" /\ d \in Datasets
      /\ runs'[p] = [runs[p] EXCEPT !.at = "dataset_rows"]
      /\ \A q \in Runners \ {p} : runs'[q] = runs[q]
      /\ status' = status
  BY DEF DeleteVectors, Goto, ErasureInv, RetentionTypeOK, RunProgress, WellPlaced, Deleting
<1>2. /\ StoresMove
      /\ \A s \in Stores \ {"vectors"} : has'[s] = has[s]
      /\ d \in has'["vectors"] => d \in Spared'
      /\ has'["vectors"] \ Spared' \subseteq has'["documents_meta"]
  <2>0. has["vectors"] \ Spared \subseteq has["documents_meta"]
    BY DEF ErasureInv, NothingStranded
  <2>1. CASE UNCHANGED missed /\ \E gone \in Erased(d) :
               Remove({"vectors"}, gone \cap has["documents_meta"])
    <3>1. PICK gone \in Erased(d) : Remove({"vectors"}, gone \cap has["documents_meta"])
      BY <2>1
    <3>2. d \notin Spared => gone = {d}
      BY <1>1, <3>1 DEF Erased, Spared
    <3>. DEFINE E == gone \cap has["documents_meta"]
    <3>3. /\ StoresMove /\ Spared' = Spared
          /\ \A s \in Stores : has'[s] = IF s \in {"vectors"} THEN has[s] \ E ELSE has[s]
      <4>. HIDE DEF E
      <4>. QED
        BY <2>1, <3>1, RemoveMoves, SparedRests DEF E
    <3>4. /\ StoresMove /\ Spared' = Spared
          /\ \A s \in Stores \ {"vectors"} : has'[s] = has[s]
          /\ has'["vectors"] = has["vectors"] \ E
      BY <3>3 DEF Stores
    <3>5. has'["documents_meta"] = has["documents_meta"]
      BY <3>4 DEF Stores
    <3>. QED
      BY <2>0, <3>2, <3>4, <3>5
  <2>2. CASE missed' = missed \cup {d} /\ UNCHANGED has
    <3>1. Spared \subseteq Spared' /\ d \in Spared'
      BY <2>2, SparedGrows DEF Spared
    <3>. QED
      BY <2>0, <2>2, <3>1 DEF StoresMove
  <2>. QED
    BY <2>1, <2>2 DEF DeleteVectors
<1>3. NothingStranded'
  BY <1>2 DEF ErasureInv, NothingStranded, Stores, VaultStores
<1>4. CompletedGone'
  BY <1>1, <1>2, CompletedStays DEF ErasureInv
<1>5. RunProgress(p)'
  <2>1. /\ runs'[p].at = "dataset_rows" /\ runs'[p].item = d
        /\ runs'[p].queue = runs[p].queue /\ runs'[p].request = runs[p].request
    BY <1>1 DEF ErasureInv, RetentionTypeOK
  <2>2. Ahead(p)' = Ahead(p) /\ (ServesRequest(p)' <=> ServesRequest(p))
    BY <1>1, <2>1 DEF Ahead, ServesRequest, Deleting
  <2>3. WellPlaced(p)'
    BY <1>1, <2>1, <2>2 DEF ErasureInv, RunProgress, WellPlaced
  <2>4. ItemProgress(p)'
    BY <1>2, <2>1 DEF ItemProgress
  <2>5. QueueProgress(p)'
    BY <1>2, <2>1, <2>2, GoneStays DEF ErasureInv, RunProgress, QueueProgress
  <2>. QED
    BY <2>3, <2>4, <2>5 DEF RunProgress
<1>. QED
  BY <1>1, <1>2, <1>3, <1>4, <1>5, OneRunMoves

LEMMA DeleteRowsKeeps ==
  ASSUME ErasureInv, NEW p \in Runners, DeleteRows(p)
  PROVE  NothingStranded' /\ CompletedGone' /\ \A q \in Runners : RunProgress(q)'
<1>. DEFINE at == runs[p].at
<1>0. PICK d : d = runs[p].item
  OBVIOUS
<1>1. /\ at \in {"dataset_rows", "documents_meta", "datasets"}
      /\ d \in Datasets
      /\ Remove(Cascade(at), {d})
      /\ \A q \in Runners \ {p} : runs'[q] = runs[q]
      /\ status' = status /\ missed' = missed /\ Spared' = Spared
  BY <1>0, SparedRests
     DEF DeleteRows, ErasureInv, RetentionTypeOK, RunProgress, WellPlaced, Deleting
<1>2. /\ runs'[p].at = AfterDelete(p)
      /\ runs'[p].item = IF AfterDelete(p) \in {"expired", "linked"} THEN NoItem ELSE d
      /\ runs'[p].queue = runs[p].queue /\ runs'[p].request = runs[p].request
  BY <1>0 DEF DeleteRows, ErasureInv, RetentionTypeOK
<1>3. /\ StoresMove
      /\ \A s \in Stores : has'[s] = IF s \in Cascade(at) THEN has[s] \ {d} ELSE has[s]
  BY <1>1, RemoveMoves
<1>4. CompletedGone'
  BY <1>1, <1>3, CompletedStays DEF ErasureInv
<1>5. /\ at \in Deleting \ {"vectors"} /\ d \in has["vectors"] => d \in Spared
      /\ at = "datasets" => \A s \in VaultStores \cup {"documents_meta"} : d \notin has[s]
  BY <1>0 DEF ErasureInv, RunProgress, ItemProgress
<1>6. CASE at = "dataset_rows"
  <2>1. /\ has'["dataset_rows"] = has["dataset_rows"] \ {d}
        /\ \A s \in Stores \ {"dataset_rows"} : has'[s] = has[s]
    BY <1>3, <1>6 DEF Cascade, Stores
  <2>2. NothingStranded'
    BY <1>1, <2>1 DEF ErasureInv, NothingStranded, Stores, VaultStores
  <2>3. runs'[p].at = "documents_meta" /\ runs'[p].item = d
    BY <1>2, <1>6 DEF AfterDelete
  <2>4. Ahead(p)' = Ahead(p) /\ (ServesRequest(p)' <=> ServesRequest(p))
    BY <1>0, <1>2, <1>6, <2>3 DEF Ahead, ServesRequest, Deleting
  <2>5. WellPlaced(p)'
    BY <1>1, <1>2, <2>3, <2>4 DEF ErasureInv, RunProgress, WellPlaced
  <2>6. ItemProgress(p)'
    BY <1>1, <1>5, <1>6, <2>1, <2>3 DEF ItemProgress, Stores, Deleting
  <2>7. QueueProgress(p)'
    BY <1>2, <1>3, <2>3, <2>4, GoneStays DEF ErasureInv, RunProgress, QueueProgress
  <2>8. RunProgress(p)'
    BY <2>5, <2>6, <2>7 DEF RunProgress
  <2>. QED
    BY <1>1, <1>3, <1>4, <2>2, <2>8, OneRunMoves
<1>7. CASE at = "documents_meta"
  <2>1. /\ \A s \in VaultStores \cup {"documents_meta"} : has'[s] = has[s] \ {d}
        /\ \A s \in {"vectors", "dataset_rows", "datasets"} : has'[s] = has[s]
    BY <1>3, <1>7 DEF Cascade, Stores, VaultStores
  <2>2. NothingStranded'
    BY <1>1, <1>5, <1>7, <2>1 DEF ErasureInv, NothingStranded, VaultStores, ItemProgress, Deleting
  <2>3. runs'[p].at = "datasets" /\ runs'[p].item = d
    BY <1>2, <1>7 DEF AfterDelete
  <2>4. Ahead(p)' = Ahead(p) /\ (ServesRequest(p)' <=> ServesRequest(p))
    BY <1>0, <1>2, <1>7, <2>3 DEF Ahead, ServesRequest, Deleting
  <2>5. WellPlaced(p)'
    BY <1>1, <1>2, <2>3, <2>4 DEF ErasureInv, RunProgress, WellPlaced
  <2>6. ItemProgress(p)'
    BY <1>1, <1>5, <1>7, <2>1, <2>3 DEF ItemProgress, Deleting
  <2>7. QueueProgress(p)'
    BY <1>2, <1>3, <2>3, <2>4, GoneStays DEF ErasureInv, RunProgress, QueueProgress
  <2>8. RunProgress(p)'
    BY <2>5, <2>6, <2>7 DEF RunProgress
  <2>. QED
    BY <1>1, <1>3, <1>4, <2>2, <2>8, OneRunMoves
<1>8. CASE at = "datasets"
  <2>1. /\ \A s \in {"dataset_rows", "datasets"} : has'[s] = has[s] \ {d}
        /\ \A s \in VaultStores \cup {"vectors", "documents_meta"} : has'[s] = has[s]
    BY <1>3, <1>8 DEF Cascade, Stores, VaultStores
  <2>2. NothingStranded'
    BY <1>1, <1>5, <1>8, <2>1 DEF ErasureInv, NothingStranded, VaultStores, ItemProgress
  <2>3. runs'[p].at = IF runs[p].request = NoItem THEN "expired" ELSE "linked"
    BY <1>2, <1>8 DEF AfterDelete
  <2>4. Gone(d)'
    <3>1. d \in has["vectors"] => d \in Spared
      BY <1>5, <1>8 DEF ItemProgress, Deleting
    <3>2. \A s \in VaultStores \cup {"documents_meta"} : d \notin has[s]
      BY <1>5, <1>8 DEF ItemProgress
    <3>3. \A s \in Stores : s = "vectors" \/ d \notin has'[s]
      BY <2>1, <3>2 DEF Stores, VaultStores
    <3>4. d \in has'["vectors"] => d \in Spared'
      BY <1>1, <2>1, <3>1
    <3>. QED
      BY <3>3, <3>4 DEF Gone
  <2>5. WellPlaced(p)'
    BY <1>2, <1>8, <2>3 DEF ErasureInv, RunProgress, WellPlaced, ServesRequest, Deleting
  <2>6. ItemProgress(p)'
    BY <2>3 DEF ItemProgress, Deleting
  <2>7. ServesRequest(p)' => ServesRequest(p)
    BY <1>8, <2>3, <1>2 DEF ServesRequest, Deleting
  <2>8. Ahead(p) \ {d} \subseteq Ahead(p)'
    BY <1>0, <1>2, <1>8 DEF Ahead, Deleting
  <2>9. QueueProgress(p)'
    <3>1. runs'[p].at # "mappings"
      BY <2>3
    <3>2. ASSUME ServesRequest(p)', NEW e \in Linked[runs'[p].request] \ Ahead(p)'
          PROVE  Gone(e)'
      <4>1. CASE e = d
        BY <2>4, <4>1
      <4>2. CASE e # d
        <5>1. e \in Linked[runs[p].request] \ Ahead(p)
          BY <1>2, <2>8, <3>2, <4>2
        <5>2. Gone(e)
          BY <2>7, <3>2, <5>1 DEF ErasureInv, RunProgress, QueueProgress
        <5>. QED
          BY <1>3, <5>2, GoneStays
      <4>. QED
        BY <4>1, <4>2
    <3>. QED
      BY <3>1, <3>2 DEF QueueProgress
  <2>10. RunProgress(p)'
    BY <2>5, <2>6, <2>9 DEF RunProgress
  <2>. QED
    BY <1>1, <1>3, <1>4, <2>2, <2>10, OneRunMoves
<1>. QED
  BY <1>1, <1>6, <1>7, <1>8

LEMMA EraseLinkedVaultKeeps ==
  ASSUME ErasureInv, NEW p \in Runners, EraseLinkedVault(p)
  PROVE  NothingStranded' /\ CompletedGone' /\ \A q \in Runners : RunProgress(q)'
<1>. DEFINE E == Linked[runs[p].request] \cap has["documents_meta"]
<1>1. /\ runs[p].at = "linked" /\ runs[p].queue = {}
      /\ Remove(VaultStores, E)
      /\ runs'[p].at = "complete" /\ runs'[p].queue = {}
      /\ runs'[p].request = runs[p].request
      /\ \A q \in Runners \ {p} : runs'[q] = runs[q]
      /\ status' = status /\ missed' = missed /\ Spared' = Spared
  BY SparedRests DEF EraseLinkedVault, Goto, ErasureInv, RetentionTypeOK
<1>2. /\ StoresMove
      /\ \A s \in Stores : has'[s] = IF s \in VaultStores THEN has[s] \ E ELSE has[s]
  BY <1>1, RemoveMoves
<1>3. NothingStranded'
  BY <1>1, <1>2 DEF ErasureInv, NothingStranded, Stores, VaultStores
<1>4. CompletedGone'
  BY <1>1, <1>2, CompletedStays DEF ErasureInv
<1>5. ServesRequest(p) /\ Ahead(p) = {} /\ Ahead(p)' = {}
  BY <1>1 DEF ServesRequest, Ahead, Deleting
<1>6. WellPlaced(p)' /\ ItemProgress(p)'
  BY <1>1, <1>5 DEF ErasureInv, RunProgress, WellPlaced, ItemProgress, Deleting
<1>7. QueueProgress(p)'
  BY <1>1, <1>2, <1>5, GoneStays DEF ErasureInv, RunProgress, QueueProgress
<1>8. RunProgress(p)'
  BY <1>6, <1>7 DEF RunProgress
<1>. QED
  BY <1>1, <1>2, <1>3, <1>4, <1>8, OneRunMoves

LEMMA CompleteRequestKeeps ==
  ASSUME ErasureInv, NEW p \in Runners, CompleteRequest(p)
  PROVE  NothingStranded' /\ CompletedGone' /\ \A q \in Runners : RunProgress(q)'
<1>. DEFINE r0 == runs[p].request
<1>1. /\ runs[p].at = "complete"
      /\ runs'[p].at = "requests"
      /\ \A q \in Runners \ {p} : runs'[q] = runs[q]
      /\ has' = has /\ Spared' = Spared
      /\ \A r \in Requests \ {r0} : status'[r] = status[r]
  BY SparedRests DEF CompleteRequest, ErasureInv, RetentionTypeOK
<1>2. StoresMove
  BY <1>1 DEF StoresMove
<1>3. \A d \in Linked[r0] : Gone(d)
  <2>1. ServesRequest(p) /\ Ahead(p) = {}
    BY <1>1 DEF ServesRequest, Ahead, Deleting, ErasureInv, RunProgress, WellPlaced
  <2>. QED
    BY <2>1 DEF ErasureInv, RunProgress, QueueProgress
<1>4. CompletedGone'
  BY <1>1, <1>2, <1>3, GoneStays DEF ErasureInv, CompletedGone
<1>5. RunProgress(p)'
  BY <1>1 DEF RunProgress, WellPlaced, ItemProgress, QueueProgress, ServesRequest, Deleting
<1>6. NothingStranded'
  BY <1>1 DEF ErasureInv, NothingStranded
<1>. QED
  BY <1>1, <1>2, <1>4, <1>5, <1>6, OneRunMoves

LEMMA VaultKeeps ==
  ASSUME ErasureInv, NEW p \in Runners, DeleteMapping(p) \/ DeleteOriginals(p)
  PROVE  NothingStranded' /\ CompletedGone' /\ \A q \in Runners : RunProgress(q)'
<1>1. /\ runs[p].at = "mappings"
      /\ runs[p].found \cap has["mapping"] \subseteq runs[p].queue
      /\ \A q \in Runners \ {p} : runs'[q] = runs[q]
      /\ status' = status /\ missed' = missed /\ Spared' = Spared
  BY SparedRests DEF DeleteMapping, DeleteOriginals, ErasureInv, RetentionTypeOK, RunProgress, QueueProgress
<1>2. CASE DeleteMapping(p)
  <2>1. PICK d \in runs[p].queue :
          /\ Remove({"mapping"}, {d})
          /\ runs'[p].at = "mappings" /\ runs'[p].found = runs[p].found
          /\ runs'[p].queue = runs[p].queue \ {d}
    <3>1. PICK d \in runs[p].queue :
            /\ Remove({"mapping"}, {d})
            /\ runs' = [runs EXCEPT ![p].queue = @ \ {d}]
      BY <1>2, Zenon DEF DeleteMapping
    <3>2. DOMAIN runs = Runners /\ runs[p] \in RunType
      BY DEF ErasureInv, RetentionTypeOK, RunType
    <3>. QED
      BY <1>1, <3>1, <3>2 DEF RunType
  <2>2. /\ StoresMove
        /\ has'["mapping"] = has["mapping"] \ {d}
        /\ \A s \in Stores \ {"mapping"} : has'[s] = has[s]
    BY <1>1, <2>1, RemoveMoves DEF Stores, VaultStores
  <2>3. NothingStranded'
    BY <1>1, <2>2 DEF ErasureInv, NothingStranded, Stores, VaultStores
  <2>4. RunProgress(p)'
    BY <1>1, <2>1, <2>2
       DEF RunProgress, WellPlaced, ItemProgress, QueueProgress, ServesRequest, Deleting
  <2>5. CompletedGone'
    BY <1>1, <2>2, CompletedStays DEF ErasureInv
  <2>. QED
    BY <1>1, <2>2, <2>3, <2>4, <2>5, OneRunMoves
<1>3. CASE DeleteOriginals(p)
  <2>1. /\ runs[p].queue = {}
        /\ Remove({"original"}, runs[p].found)
        /\ runs'[p].at = "audit"
    BY <1>3 DEF DeleteOriginals, ErasureInv, RetentionTypeOK
  <2>2. /\ StoresMove
        /\ has'["original"] = has["original"] \ runs[p].found
        /\ \A s \in Stores \ {"original"} : has'[s] = has[s]
    BY <1>1, <2>1, RemoveMoves DEF Stores, VaultStores
  <2>3. NothingStranded'
    BY <1>1, <2>1, <2>2 DEF ErasureInv, NothingStranded, Stores, VaultStores
  <2>4. RunProgress(p)'
    BY <2>1 DEF RunProgress, WellPlaced, ItemProgress, QueueProgress, ServesRequest, Deleting
  <2>5. CompletedGone'
    BY <1>1, <2>2, CompletedStays DEF ErasureInv
  <2>. QED
    BY <1>1, <2>2, <2>3, <2>4, <2>5, OneRunMoves
<1>. QED
  BY <1>2, <1>3

LEMMA ChoiceKeeps ==
  ASSUME ErasureInv, NEW p \in Runners,
         NextDataset(p) \/ NextRequest(p) \/ FetchExpiredVault(p)
  PROVE  NothingStranded' /\ CompletedGone' /\ \A q \in Runners : RunProgress(q)'
<1>1. /\ \A q \in Runners \ {p} : runs'[q] = runs[q]
      /\ UNCHANGED <<has, status, missed>>
  BY DEF NextDataset, NextRequest, FetchExpiredVault, ErasureInv, RetentionTypeOK
<1>2. CASE NextDataset(p)
  <2>1. runs[p].at \in {"expired", "linked"}
    BY <1>2 DEF NextDataset
  <2>2. PICK d \in runs[p].queue :
          runs' = [runs EXCEPT ![p] = [runs[p] EXCEPT !.at = "vectors", !.item = d,
                                                      !.queue = runs[p].queue \ {d}]]
    BY <1>2 DEF NextDataset
  <2>3. d \in Datasets
    BY DEF ErasureInv, RetentionTypeOK
  <2>4. /\ runs'[p].at = "vectors" /\ runs'[p].item = d
        /\ runs'[p].queue = runs[p].queue \ {d}
        /\ runs'[p].request = runs[p].request
    BY <2>2 DEF ErasureInv, RetentionTypeOK
  <2>5. Ahead(p)' = Ahead(p)
    BY <2>1, <2>4 DEF Ahead, Deleting
  <2>6. ServesRequest(p)' => ServesRequest(p)
    BY <2>1, <2>4 DEF ServesRequest, ErasureInv, RunProgress, WellPlaced
  <2>7. WellPlaced(p)' /\ ItemProgress(p)'
    BY <2>3, <2>4, <2>6 DEF ErasureInv, RunProgress, WellPlaced, ItemProgress
  <2>8. QueueProgress(p)'
    BY <1>1, <2>4, <2>5, <2>6, SparedRests DEF ErasureInv, RunProgress, QueueProgress, Gone
  <2>9. RunProgress(p)'
    BY <2>7, <2>8 DEF RunProgress
  <2>. QED
    BY <1>1, <2>9, FetchKeeps
<1>3. CASE NextRequest(p)
  <2>1. PICK r \in runs[p].requests :
          runs' = [runs EXCEPT ![p] = [runs[p] EXCEPT !.at = "linked", !.request = r,
                                                      !.queue = Linked[r],
                                                      !.requests = runs[p].requests \ {r}]]
    BY <1>3 DEF NextRequest
  <2>2. /\ runs'[p].at = "linked" /\ runs'[p].request = r /\ runs'[p].queue = Linked[r]
        /\ r \in Requests
    BY <2>1 DEF ErasureInv, RetentionTypeOK
  <2>3. RunProgress(p)'
    BY <2>2 DEF RunProgress, WellPlaced, ItemProgress, QueueProgress, Ahead, Deleting
  <2>. QED
    BY <1>1, <2>3, FetchKeeps
<1>4. CASE FetchExpiredVault(p)
  <2>1. /\ runs'[p].at = "mappings" /\ runs'[p].queue = has["original"] \cap vaultDue
        /\ runs'[p].found = has["original"] \cap vaultDue
    BY <1>4 DEF FetchExpiredVault, ErasureInv, RetentionTypeOK
  <2>2. RunProgress(p)'
    BY <2>1 DEF RunProgress, WellPlaced, ItemProgress, QueueProgress, ServesRequest, Deleting
  <2>. QED
    BY <1>1, <2>2, FetchKeeps
<1>. QED
  BY <1>2, <1>3, <1>4

\* A run at rest, at the list of datasets or at the requests has nothing in hand.
LEMMA IdleKeeps ==
  ASSUME ErasureInv, NEW p \in Runners,
         StartRun(p) \/ FetchRequests(p) \/ AnonymizeAuditLogs(p) \/ Abort(p)
  PROVE  NothingStranded' /\ CompletedGone' /\ \A q \in Runners : RunProgress(q)'
<1>1. /\ \A q \in Runners \ {p} : runs'[q] = runs[q]
      /\ UNCHANGED <<has, status, missed>>
  BY DEF StartRun, FetchRequests, AnonymizeAuditLogs, Abort, ErasureInv, RetentionTypeOK
<1>2. /\ runs'[p].at \in {"idle", "expired", "requests"}
      /\ runs'[p].at = "expired" => runs'[p].request = NoItem
  <2>1. CASE StartRun(p)
    BY <2>1 DEF StartRun, Rest, ErasureInv, RetentionTypeOK
  <2>2. CASE FetchRequests(p)
    BY <2>2 DEF FetchRequests, ErasureInv, RetentionTypeOK
  <2>3. CASE AnonymizeAuditLogs(p) \/ Abort(p)
    BY <2>3 DEF AnonymizeAuditLogs, Abort, Rest, ErasureInv, RetentionTypeOK
  <2>. QED
    BY <2>1, <2>2, <2>3
<1>3. RunProgress(p)'
  BY <1>2 DEF RunProgress, WellPlaced, ItemProgress, QueueProgress, ServesRequest, Deleting
<1>. QED
  BY <1>1, <1>3, FetchKeeps

LEMMA ErasureInit == RetentionInit => ErasureInv
<1>. SUFFICES ASSUME RetentionInit PROVE ErasureInv
  OBVIOUS
<1>1. NothingStranded
  BY DEF RetentionInit, NothingStranded, Stores, VaultStores
<1>2. CompletedGone
  BY DEF RetentionInit, CompletedGone
<1>3. ASSUME NEW p \in Runners
      PROVE  RunProgress(p)
  <2>1. runs[p].at = "idle"
    BY DEF RetentionInit, Rest
  <2>. QED
    BY <2>1 DEF RunProgress, WellPlaced, ItemProgress, QueueProgress, ServesRequest, Deleting
<1>. QED
  BY <1>1, <1>2, <1>3, RetentionTypeInit DEF ErasureInv

LEMMA ErasureStep == ErasureInv /\ [RetentionNext]_retentionVars => ErasureInv'
<1>. SUFFICES ASSUME ErasureInv, [RetentionNext]_retentionVars
              PROVE  NothingStranded' /\ CompletedGone' /\ \A q \in Runners : RunProgress(q)'
  BY RetentionTypeStep DEF ErasureInv
<1>1. ASSUME NEW p \in Runners, StartRun(p) \/ RunStep(p) \/ Abort(p)
      PROVE  NothingStranded' /\ CompletedGone' /\ \A q \in Runners : RunProgress(q)'
  BY <1>1, DeleteVectorsKeeps, DeleteRowsKeeps, EraseLinkedVaultKeeps,
     CompleteRequestKeeps, VaultKeeps, ChoiceKeeps, IdleKeeps DEF RunStep
<1>2. ASSUME UNCHANGED <<has, runs, missed>>,
             \A r \in Requests : status'[r] = "completed" => status[r] = "completed"
      PROVE  NothingStranded' /\ CompletedGone' /\ \A q \in Runners : RunProgress(q)'
  <2>1. StoresMove /\ Spared' = Spared
    BY <1>2, SparedRests DEF StoresMove
  <2>2. NothingStranded'
    BY <1>2, <2>1 DEF ErasureInv, NothingStranded
  <2>. QED
    BY <1>2, <2>1, <2>2, CompletedStays, ProgressStays DEF ErasureInv
<1>3. ASSUME NEW d \in Datasets, RetentionPasses(d) \/ VaultRetentionPasses(d)
      PROVE  NothingStranded' /\ CompletedGone' /\ \A q \in Runners : RunProgress(q)'
  BY <1>2, <1>3 DEF RetentionPasses, VaultRetentionPasses
<1>4. ASSUME NEW r \in Requests, RequestDeletion(r)
      PROVE  NothingStranded' /\ CompletedGone' /\ \A q \in Runners : RunProgress(q)'
  BY <1>2, <1>4 DEF RequestDeletion, ErasureInv, RetentionTypeOK
<1>5. CASE UNCHANGED retentionVars
  BY <1>2, <1>5 DEF retentionVars
<1>. QED
  BY <1>1, <1>3, <1>4, <1>5 DEF RetentionNext

\* A deletion request that is recorded as completed left no row and no original of
\* its subject's datasets, and vectors only where Qdrant failed or one scroll by
\* dataset_id does not find every point; and no run that is cut short strands a row,
\* however the nightly job and a run by hand overlap.
THEOREM CompletedRequestsErased == RetentionSpec => []CompletedIsErased
<1>1. ErasureInv => CompletedIsErased
  BY DEF ErasureInv, CompletedIsErased, CompletedGone, Gone
<1>. QED
  BY <1>1, ErasureInit, ErasureStep, PTL DEF RetentionSpec

-----------------------------------------------------------------------------
(* Retention: nothing is erased before its time *)

\* What is due stays due, a request that was made stays made, and an original
\* that has expired stays expired.
DueMove ==
  /\ \A d \in Datasets : Due(d) => Due(d)'
  /\ \A r \in Requests : status[r] # "none" => status'[r] # "none"
  /\ vaultDue \subseteq vaultDue'

LEMMA DueMoves == RetentionTypeOK /\ [RetentionNext]_retentionVars => DueMove
<1>. SUFFICES ASSUME RetentionTypeOK, [RetentionNext]_retentionVars
              PROVE  DueMove
  OBVIOUS
<1>1. /\ \A d \in Datasets : expires[d] = "due" => expires'[d] = "due"
      /\ vaultDue \subseteq vaultDue'
  <2>1. CASE UNCHANGED <<expires, vaultDue>>
    BY <2>1
  <2>2. ASSUME NEW d \in Datasets, RetentionPasses(d) \/ VaultRetentionPasses(d)
        PROVE  /\ \A e \in Datasets : expires[e] = "due" => expires'[e] = "due"
               /\ vaultDue \subseteq vaultDue'
    BY <2>2 DEF RetentionPasses, VaultRetentionPasses, RetentionTypeOK
  <2>. QED
    BY <2>1, <2>2
       DEF RetentionNext, RunStep, retentionVars, StartRun, NextDataset, DeleteVectors,
           DeleteRows, FetchRequests, NextRequest, EraseLinkedVault, CompleteRequest,
           FetchExpiredVault, DeleteMapping, DeleteOriginals, AnonymizeAuditLogs, Abort,
           RequestDeletion
<1>2. \A r \in Requests : status[r] # "none" => status'[r] # "none"
  <2>1. CASE UNCHANGED status
    BY <2>1
  <2>2. ASSUME NEW p \in Runners, CompleteRequest(p)
        PROVE  \A r \in Requests : status[r] # "none" => status'[r] # "none"
    BY <2>2 DEF CompleteRequest, RetentionTypeOK
  <2>3. ASSUME NEW r0 \in Requests, RequestDeletion(r0)
        PROVE  \A r \in Requests : status[r] # "none" => status'[r] # "none"
    BY <2>3 DEF RequestDeletion, RetentionTypeOK
  <2>. QED
    BY <2>1, <2>2, <2>3
       DEF RetentionNext, RunStep, retentionVars, StartRun, NextDataset, DeleteVectors,
           DeleteRows, FetchRequests, NextRequest, EraseLinkedVault,
           FetchExpiredVault, DeleteMapping, DeleteOriginals, AnonymizeAuditLogs, Abort,
           RetentionPasses, VaultRetentionPasses
<1>. QED
  BY <1>1, <1>2 DEF DueMove, Due

LEMMA DueStays ==
  ASSUME ErasureInv, DueMove, NEW q \in Runners, RunIsDue(q), runs'[q] = runs[q]
  PROVE  RunIsDue(q)'
<1>1. Ahead(q)' = Ahead(q) /\ (ServesRequest(q)' <=> ServesRequest(q))
  BY DEF Ahead, ServesRequest
<1>2. /\ Ahead(q) \subseteq Datasets
      /\ runs[q].requests \subseteq Requests
      /\ ServesRequest(q) => runs[q].request \in Requests
  BY DEF ErasureInv, RetentionTypeOK, RunProgress, WellPlaced, Ahead
<1>. QED
  BY <1>1, <1>2 DEF RunIsDue, DueMove

\* What a run takes up next is due.
LEMMA RunStaysDue ==
  ASSUME ErasureInv, DueInv, DueMove, NEW p \in Runners,
         StartRun(p) \/ RunStep(p) \/ Abort(p)
  PROVE  RunIsDue(p)'
<1>. DEFINE run == runs[p]
            next == runs'[p]
<1>0. /\ RunIsDue(p) /\ WellPlaced(p) /\ Ahead(p) \subseteq Datasets
      /\ run.requests \subseteq Requests
      /\ \A d \in Datasets : Due(d) => Due(d)'
      /\ \A r \in Requests : status[r] # "none" => status'[r] # "none"
      /\ vaultDue \subseteq vaultDue'
  BY DEF DueInv, ErasureInv, RetentionTypeOK, RunProgress, WellPlaced, Ahead, DueMove
<1>1. CASE StartRun(p)
  <2>1. /\ next.at = "expired" /\ next.queue = ExpiringDatasets /\ next.requests = {}
    BY <1>1 DEF StartRun, Rest, ErasureInv, RetentionTypeOK
  <2>2. \A d \in ExpiringDatasets : d \in Datasets /\ Due(d)
    BY DEF ExpiringDatasets, Due, ErasureInv, RetentionTypeOK, Stores
  <2>. QED
    BY <1>0, <2>1, <2>2 DEF RunIsDue, Ahead, ServesRequest, Deleting
<1>2. CASE NextDataset(p)
  <2>1. PICK d \in run.queue :
          runs' = [runs EXCEPT ![p] = [runs[p] EXCEPT !.at = "vectors", !.item = d,
                                                      !.queue = runs[p].queue \ {d}]]
    BY <1>2 DEF NextDataset
  <2>2. /\ next.at = "vectors" /\ next.item = d /\ next.queue = run.queue \ {d}
        /\ next.request = run.request /\ next.requests = run.requests
    BY <2>1 DEF ErasureInv, RetentionTypeOK
  <2>3. run.at \in {"expired", "linked"}
    BY <1>2 DEF NextDataset
  <2>4. /\ Ahead(p)' = Ahead(p)
        /\ ServesRequest(p)' => ServesRequest(p) /\ run.request \in Requests
    BY <1>0, <2>2, <2>3 DEF Ahead, ServesRequest, WellPlaced, Deleting
  <2>. QED
    BY <1>0, <2>2, <2>3, <2>4 DEF RunIsDue
<1>3. CASE DeleteVectors(p)
  <2>1. /\ run.at = "vectors" /\ next.at = "dataset_rows" /\ next.item = run.item
        /\ next.queue = run.queue /\ next.request = run.request
        /\ next.requests = run.requests
    BY <1>3 DEF DeleteVectors, Goto, ErasureInv, RetentionTypeOK
  <2>2. /\ Ahead(p)' = Ahead(p)
        /\ ServesRequest(p)' => ServesRequest(p) /\ run.request \in Requests
    BY <1>0, <2>1 DEF Ahead, ServesRequest, WellPlaced, Deleting
  <2>. QED
    BY <1>0, <2>1, <2>2 DEF RunIsDue, Deleting
<1>4. CASE DeleteRows(p)
  <2>1. /\ run.at \in {"dataset_rows", "documents_meta", "datasets"}
        /\ next.at = AfterDelete(p)
        /\ next.item = IF AfterDelete(p) \in {"expired", "linked"} THEN NoItem ELSE run.item
        /\ next.queue = run.queue /\ next.request = run.request
        /\ next.requests = run.requests
    BY <1>4 DEF DeleteRows, ErasureInv, RetentionTypeOK
  <2>2. \/ next.at \in {"documents_meta", "datasets"}
        \/ next.at = "expired"
        \/ next.at = "linked" /\ run.request # NoItem
    BY <2>1 DEF AfterDelete
  <2>3. /\ Ahead(p)' \subseteq Ahead(p)
        /\ ServesRequest(p)' => ServesRequest(p) /\ run.request \in Requests
    BY <1>0, <2>1, <2>2 DEF Ahead, ServesRequest, WellPlaced, Deleting
  <2>. QED
    BY <1>0, <2>1, <2>2, <2>3 DEF RunIsDue, Deleting
<1>5. CASE NextRequest(p)
  <2>1. PICK r \in run.requests :
          runs' = [runs EXCEPT ![p] = [runs[p] EXCEPT !.at = "linked", !.request = r,
                                                      !.queue = Linked[r],
                                                      !.requests = runs[p].requests \ {r}]]
    BY <1>5 DEF NextRequest
  <2>2. /\ next.at = "linked" /\ next.request = r /\ next.queue = Linked[r]
        /\ next.requests = run.requests \ {r}
    BY <2>1 DEF ErasureInv, RetentionTypeOK
  <2>3. r \in Requests /\ status[r] # "none" /\ status' = status
    BY <1>0, <1>5 DEF RunIsDue, NextRequest
  <2>. QED
    BY <1>0, <2>2, <2>3 DEF RunIsDue, Ahead, ServesRequest, Deleting, Due
<1>6. CASE EraseLinkedVault(p)
  <2>1. /\ run.at = "linked" /\ next.at = "complete" /\ next.request = run.request
        /\ next.requests = run.requests
    BY <1>6 DEF EraseLinkedVault, Goto, ErasureInv, RetentionTypeOK
  <2>. QED
    BY <1>0, <2>1 DEF RunIsDue, Ahead, ServesRequest, WellPlaced, Deleting
<1>7. CASE FetchRequests(p) \/ CompleteRequest(p)
  <2>1. /\ next.at = "requests"
        /\ next.requests \subseteq run.requests \cup {r \in Requests : status[r] = "pending"}
    <3>1. CASE FetchRequests(p)
      BY <3>1 DEF FetchRequests, ErasureInv, RetentionTypeOK
    <3>2. CASE CompleteRequest(p)
      BY <3>2 DEF CompleteRequest, ErasureInv, RetentionTypeOK
    <3>. QED
      BY <1>7, <3>1, <3>2
  <2>. QED
    BY <1>0, <2>1 DEF RunIsDue, Ahead, ServesRequest, Deleting
<1>8. CASE FetchExpiredVault(p)
  <2>1. /\ next.at = "mappings" /\ next.queue \subseteq vaultDue
        /\ next.found \subseteq vaultDue /\ next.requests = run.requests
    BY <1>8 DEF FetchExpiredVault, ErasureInv, RetentionTypeOK
  <2>. QED
    BY <1>0, <2>1 DEF RunIsDue, Ahead, ServesRequest, Deleting
<1>9. CASE DeleteMapping(p)
  <2>1. /\ run.at = "mappings" /\ next.at = "mappings" /\ next.queue \subseteq run.queue
        /\ next.found = run.found /\ next.requests = run.requests
    BY <1>9 DEF DeleteMapping, ErasureInv, RetentionTypeOK
  <2>. QED
    BY <1>0, <2>1 DEF RunIsDue, Ahead, ServesRequest, Deleting
<1>10. CASE DeleteOriginals(p)
  <2>1. next.at = "audit" /\ next.requests = run.requests
    BY <1>10 DEF DeleteOriginals, ErasureInv, RetentionTypeOK
  <2>. QED
    BY <1>0, <2>1 DEF RunIsDue, Ahead, ServesRequest, Deleting
<1>11. CASE AnonymizeAuditLogs(p) \/ Abort(p)
  <2>1. next.at = "idle" /\ next.requests = {}
    BY <1>11 DEF AnonymizeAuditLogs, Abort, Rest, ErasureInv, RetentionTypeOK
  <2>. QED
    BY <2>1 DEF RunIsDue, ServesRequest, Deleting
<1>. QED
  BY <1>1, <1>2, <1>3, <1>4, <1>5, <1>6, <1>7, <1>8, <1>9, <1>10, <1>11 DEF RunStep

LEMMA DueInit == RetentionInit => DueInv
BY DEF RetentionInit, DueInv, RunIsDue, Rest, ServesRequest, Deleting

LEMMA DueStep == ErasureInv /\ DueInv /\ [RetentionNext]_retentionVars => DueInv'
<1>. SUFFICES ASSUME ErasureInv, DueInv, [RetentionNext]_retentionVars
              PROVE  DueInv'
  OBVIOUS
<1>1. DueMove
  BY DueMoves DEF ErasureInv
<1>2. ASSUME NEW p \in Runners, StartRun(p) \/ RunStep(p) \/ Abort(p)
      PROVE  DueInv'
  <2>1. \A q \in Runners \ {p} : runs'[q] = runs[q]
    BY <1>2
       DEF RunStep, StartRun, NextDataset, DeleteVectors, DeleteRows, FetchRequests,
           NextRequest, EraseLinkedVault, CompleteRequest, FetchExpiredVault,
           DeleteMapping, DeleteOriginals, AnonymizeAuditLogs, Abort, Goto,
           ErasureInv, RetentionTypeOK
  <2>2. RunIsDue(p)'
    BY <1>1, <1>2, RunStaysDue
  <2>. QED
    BY <1>1, <2>1, <2>2, DueStays DEF DueInv
<1>3. CASE UNCHANGED runs
  BY <1>1, <1>3, DueStays DEF DueInv
<1>. QED
  BY <1>2, <1>3
     DEF RetentionNext, RetentionPasses, VaultRetentionPasses, RequestDeletion, retentionVars

LEMMA ErasesOnlyDue ==
  ASSUME ErasureInv, DueInv, [RetentionNext]_retentionVars,
         NEW s \in Stores, NEW d \in has[s] \ has'[s]
  PROVE  Due(d) \/ (s \in VaultStores /\ d \in vaultDue)
<1>1. ASSUME NEW p \in Runners, DeleteVectors(p) \/ DeleteRows(p)
      PROVE  Due(d)
  <2>1. PICK S, D : Remove(S, D) /\ D \subseteq {runs[p].item}
    <3>1. CASE DeleteVectors(p)
      <4>1. PICK gone \in Erased(runs[p].item) :
              Remove({"vectors"}, gone \cap has["documents_meta"])
        BY <3>1 DEF DeleteVectors
      <4>2. gone \cap has["documents_meta"] \subseteq {runs[p].item}
        BY DEF Erased
      <4>. QED
        BY <4>1, <4>2
    <3>2. CASE DeleteRows(p)
      BY <3>2 DEF DeleteRows
    <3>. QED
      BY <1>1, <3>1, <3>2
  <2>2. d = runs[p].item
    BY <2>1 DEF Remove
  <2>3. runs[p].at \in Deleting
    BY <1>1 DEF DeleteVectors, DeleteRows, Deleting
  <2>. QED
    BY <2>2, <2>3 DEF DueInv, RunIsDue, Ahead
<1>2. ASSUME NEW p \in Runners, EraseLinkedVault(p)
      PROVE  Due(d)
  <2>1. runs[p].at = "linked" /\ d \in Linked[runs[p].request]
    BY <1>2 DEF EraseLinkedVault, Remove
  <2>2. /\ runs[p].request \in Requests
        /\ status[runs[p].request] # "none"
    BY <2>1 DEF ErasureInv, RunProgress, WellPlaced, DueInv, RunIsDue, ServesRequest
  <2>. QED
    BY <2>1, <2>2 DEF Due
<1>3. ASSUME NEW p \in Runners, DeleteMapping(p) \/ DeleteOriginals(p)
      PROVE  s \in VaultStores /\ d \in vaultDue
  <2>1. runs[p].queue \cup runs[p].found \subseteq vaultDue
    BY <1>3 DEF DeleteMapping, DeleteOriginals, DueInv, RunIsDue
  <2>2. CASE DeleteMapping(p)
    BY <2>1, <2>2 DEF DeleteMapping, Remove, VaultStores
  <2>3. CASE DeleteOriginals(p)
    BY <2>1, <2>3 DEF DeleteOriginals, Remove, VaultStores
  <2>. QED
    BY <1>3, <2>2, <2>3
<1>4. CASE UNCHANGED has
  BY <1>4
<1>. QED
  BY <1>1, <1>2, <1>3, <1>4
     DEF RetentionNext, RunStep, retentionVars, StartRun, NextDataset, FetchRequests,
         NextRequest, CompleteRequest, FetchExpiredVault, AnonymizeAuditLogs, Abort,
         RetentionPasses, VaultRetentionPasses, RequestDeletion

\* Nothing leaves a store before its time: a step that erases something of a
\* dataset finds it due, named by a deletion request, or expired in the vault.
THEOREM OnlyDueErased == RetentionSpec => ErasesOnlyWhatIsDue
<1>. DEFINE Erases ==
       \A s \in Stores : \A d \in has[s] \ has'[s] :
         \/ expires[d] = "due"
         \/ \E r \in Requests : status[r] # "none" /\ d \in Linked[r]
         \/ s \in VaultStores /\ d \in vaultDue
<1>1. ErasureInv /\ DueInv /\ [RetentionNext]_retentionVars => [Erases]_retentionVars
  BY ErasesOnlyDue DEF Due
<1>. QED
  BY <1>1, ErasureInit, ErasureStep, DueInit, DueStep, PTL
     DEF RetentionSpec, ErasesOnlyWhatIsDue

-----------------------------------------------------------------------------
(* RepoSync: the recorded commit is ingested *)

Doc == [file : Files, version : Nat] \cup Items

Places == {"idle", "head", "state", "delete", "fetch", "ingest", "source", "load",
           "resources", "ingest source", "links"}

CallType == [at : Places, sha : Nat, last : Nat, docs : SUBSET Doc,
             resources : SUBSET Kinds, links : SUBSET Kinds]

StateType == [Sources -> [sha : Nat, status : {"pending", "syncing", "ok", "error"}]]

SyncTypes ==
  /\ trees \in Seq([Files -> Nat]) /\ trees # <<>>
  /\ \A n \in 1..Tip : \A f \in Files : trees[n][f] <= n
  /\ feed \subseteq Items
  /\ links \subseteq Kinds
  /\ state \in StateType
  /\ calls \in [Callers -> CallType]

\* A file is what it was at an earlier commit, or it is gone, or it was written since.
TreesEvolve ==
  \A m \in 1..Tip : \A n \in 1..m : \A f \in Files :
    trees[m][f] = trees[n][f] \/ trees[m][f] = 0 \/ trees[m][f] > n

\* No row says which source it came from, so no sync deletes any.
RowsUnmarked == \A r \in stored : r.source_type # "github"

\* Of every file of a commit this version or a later one is in docs or was dealt
\* with, or the file has been removed since.
CoveredBut(sha, docs) ==
  \A f \in Wanted : trees[sha][f] # 0 =>
    \E n \in sha..Tip :
      \/ trees[n][f] = 0
      \/ Handled([file |-> f, version |-> trees[n][f]])
      \/ [file |-> f, version |-> trees[n][f]] \in docs

\* A commit that may be recorded, or was: it exists and is covered.
Ingested(sha) == sha # NoSha => sha \in 1..Tip /\ CoveredBut(sha, {})

CallProgress(c) ==
  /\ calls[c].at \in {"state", "delete", "fetch", "ingest"} => calls[c].sha \in 1..Tip
  /\ calls[c].at \in {"delete", "fetch"} => Ingested(calls[c].last)
  /\ calls[c].at = "ingest" => CoveredBut(calls[c].sha, calls[c].docs)

SyncInv ==
  /\ SyncTypes
  /\ TreesEvolve
  /\ RowsUnmarked
  /\ Ingested(state["git"].sha)
  /\ \A c \in Callers : CallProgress(c)

LEMMA SyncTypesInit == SyncInit => SyncTypes
<1>. SUFFICES ASSUME SyncInit PROVE SyncTypes
  OBVIOUS
<1>1. PICK present \in SUBSET Files :
        trees = <<[f \in Files |-> IF f \in present THEN 1 ELSE 0]>>
  BY DEF SyncInit
<1>2. trees \in Seq([Files -> Nat]) /\ trees # <<>> /\ Tip = 1
  BY <1>1 DEF Tip
<1>3. \A n \in 1..Tip : \A f \in Files : trees[n][f] <= n
  BY <1>1, <1>2
<1>4. NoCall \in CallType
  BY DEF NoCall, NoSha, CallType, Places
<1>5. state \in StateType
  BY DEF SyncInit, StateType, NoSha
<1>. QED
  BY <1>2, <1>3, <1>4, <1>5 DEF SyncInit, SyncTypes

\* A call that moves keeps its type, and the other stays where it is.
LEMMA CallMoves ==
  ASSUME calls \in [Callers -> CallType], NEW c \in Callers, NEW call \in CallType,
         calls' = [calls EXCEPT ![c] = call]
  PROVE  /\ calls' \in [Callers -> CallType]
         /\ calls'[c] = call
         /\ \A b \in Callers \ {c} : calls'[b] = calls[b]
OBVIOUS

\* What the calls of sync_repo and sync_office365 leave in the row of a source.
LEMMA UpsertType ==
  ASSUME SyncTypes, NEW source \in Sources, NEW sha \in Nat,
         NEW status1 \in {"pending", "syncing", "ok", "error"},
         Upsert(source, sha, status1)
  PROVE  /\ state' \in StateType
         /\ \A s \in Sources : state'[s].sha =
              IF s = source /\ sha # NoSha THEN sha ELSE state[s].sha
BY DEF SyncTypes, StateType, Upsert, NoSha

LEMMA DocsType ==
  ASSUME SyncTypes, NEW head \in 1..Tip, NEW paths
  PROVE  Docs(head, paths) \in SUBSET Doc
BY DEF SyncTypes, Docs, Doc, Wanted, Tip

\* Where each step leaves the call that takes it.
LEMMA CallSteps ==
  ASSUME NEW c \in Callers, calls[c].at = "state" => calls[c].sha # NoSha
  PROVE  /\ BeginSync(c) => calls' = [calls EXCEPT ![c] = [calls[c] EXCEPT !.at = "head"]]
         /\ ReadHead(c) =>
              calls' = [calls EXCEPT ![c] = [calls[c] EXCEPT !.at = "state", !.sha = Tip]]
         /\ ReadState(c) => \E at \in {"ingest", "fetch", "delete"} :
              calls' = [calls EXCEPT ![c] = [calls[c] EXCEPT !.at = at,
                                                             !.last = state["git"].sha]]
         /\ DeleteChanged(c) => calls' = [calls EXCEPT ![c] = [calls[c] EXCEPT !.at = "fetch"]]
         /\ IngestNext(c) => \E d \in calls[c].docs :
              calls' = [calls EXCEPT ![c] = [calls[c] EXCEPT !.docs = calls[c].docs \ {d}]]
         /\ BeginSource(c) => calls' = [calls EXCEPT ![c] = [calls[c] EXCEPT !.at = "load"]]
         /\ RecordSource(c) => calls' = [calls EXCEPT ![c] = [calls[c] EXCEPT !.at = "links"]]
         /\ FetchIncremental(c) =>
              calls' = [calls EXCEPT ![c] = [calls[c] EXCEPT !.at = "ingest source",
                                                             !.resources = {}]]
<1>1. BeginSync(c) => calls' = [calls EXCEPT ![c] = [calls[c] EXCEPT !.at = "head"]]
  BY DEF BeginSync
<1>2. ReadHead(c) =>
        calls' = [calls EXCEPT ![c] = [calls[c] EXCEPT !.at = "state", !.sha = Tip]]
  BY DEF ReadHead
<1>3. ReadState(c) => \E at \in {"ingest", "fetch", "delete"} :
        calls' = [calls EXCEPT ![c] = [calls[c] EXCEPT !.at = at, !.last = state["git"].sha]]
  <2>. SUFFICES ASSUME ReadState(c)
                PROVE  \E at \in {"ingest", "fetch", "delete"} :
                         calls' = [calls EXCEPT ![c] = [calls[c] EXCEPT !.at = at,
                                                        !.last = state["git"].sha]]
    OBVIOUS
  <2>0. calls[c].sha # NoSha
    BY DEF ReadState
  <2>1. CASE state["git"].sha = calls[c].sha
    BY <2>0, <2>1 DEF ReadState
  <2>2. CASE state["git"].sha # calls[c].sha /\ state["git"].sha = NoSha
    BY <2>2 DEF ReadState
  <2>3. CASE state["git"].sha # calls[c].sha /\ state["git"].sha # NoSha
    BY <2>3 DEF ReadState
  <2>. QED
    BY <2>1, <2>2, <2>3
<1>4. DeleteChanged(c) => calls' = [calls EXCEPT ![c] = [calls[c] EXCEPT !.at = "fetch"]]
  BY DEF DeleteChanged
<1>5. IngestNext(c) => \E d \in calls[c].docs :
        calls' = [calls EXCEPT ![c] = [calls[c] EXCEPT !.docs = calls[c].docs \ {d}]]
  BY DEF IngestNext
<1>6. BeginSource(c) => calls' = [calls EXCEPT ![c] = [calls[c] EXCEPT !.at = "load"]]
  BY DEF BeginSource
<1>7. RecordSource(c) => calls' = [calls EXCEPT ![c] = [calls[c] EXCEPT !.at = "links"]]
  BY DEF RecordSource
<1>8. FetchIncremental(c) =>
        calls' = [calls EXCEPT ![c] = [calls[c] EXCEPT !.at = "ingest source", !.resources = {}]]
  BY DEF FetchIncremental
<1>. QED
  BY <1>1, <1>2, <1>3, <1>4, <1>5, <1>6, <1>7, <1>8

\* What the fetch of one drive, folder, channel or notebook does to its call.
LEMMA FetchInitialCall ==
  ASSUME NEW c \in Callers, FetchInitial(c)
  PROVE  \E k \in calls[c].resources, kept \in BOOLEAN, docs \in SUBSET feed :
           calls' = [calls EXCEPT ![c] =
             [calls[c] EXCEPT
                !.resources = calls[c].resources \ {k},
                !.at = IF calls[c].resources \ {k} = {} THEN "ingest source" ELSE calls[c].at,
                !.docs = calls[c].docs \cup docs,
                !.links = IF kept THEN calls[c].links \cup {k} ELSE calls[c].links]]
<1>. DEFINE Listed(k, answer) ==
              IF answer = "items" THEN {i \in feed : i.kind = k /\ Fetchable(i)} ELSE {}
<1>. DEFINE Fetches(k, answer, kept, unread) ==
              /\ Fail(IF answer = "items" THEN Cardinality(unread) ELSE 1)
              /\ calls' = [calls EXCEPT
                   ![c].resources = calls[c].resources \ {k},
                   ![c].at = IF calls[c].resources \ {k} = {} THEN "ingest source" ELSE @,
                   ![c].docs = @ \cup (Listed(k, answer) \ unread),
                   ![c].links = IF kept THEN @ \cup {k} ELSE @]
              /\ dropped' = dropped \cup ({i \in feed : i.kind = k /\ Fetchable(i)}
                                           \ Listed(k, answer)) \cup unread
<1>1. \E k \in calls[c].resources, answer \in GraphAnswers :
        \E kept \in LinkKept(k, answer) : \E unread \in SUBSET Listed(k, answer) :
          Fetches(k, answer, kept, unread)
  BY Zenon DEF FetchInitial
<1>. HIDE DEF Fetches
<1>2. PICK k \in calls[c].resources, answer \in GraphAnswers :
        \E kept \in LinkKept(k, answer) : \E unread \in SUBSET Listed(k, answer) :
          Fetches(k, answer, kept, unread)
  <2>. HIDE DEF Listed
  <2>. QED
    BY <1>1
<1>3. LinkKept(k, answer) \subseteq BOOLEAN
  BY DEF LinkKept
<1>4. Listed(k, answer) \in SUBSET feed
  OBVIOUS
<1>5. PICK kept \in LinkKept(k, answer), unread \in SUBSET Listed(k, answer) :
        Fetches(k, answer, kept, unread)
  <2>. HIDE DEF Listed
  <2>. QED
    BY <1>2
<1>6. Listed(k, answer) \ unread \in SUBSET feed /\ kept \in BOOLEAN
  <2>. HIDE DEF Listed
  <2>. QED
    BY <1>3, <1>4
<1>7. calls' = [calls EXCEPT ![c] =
        [calls[c] EXCEPT
           !.resources = calls[c].resources \ {k},
           !.at = IF calls[c].resources \ {k} = {} THEN "ingest source" ELSE calls[c].at,
           !.docs = calls[c].docs \cup (Listed(k, answer) \ unread),
           !.links = IF kept THEN calls[c].links \cup {k} ELSE calls[c].links]]
  <2>. HIDE DEF Listed
  <2>. QED
    BY <1>5 DEF Fetches
<1>. QED
  <2>. HIDE DEF Listed
  <2>. QED
    BY <1>6, <1>7

LEMMA SyncTypesStep == SyncInv /\ [SyncNext]_syncVars => SyncTypes'
<1>. SUFFICES ASSUME SyncInv, [SyncNext]_syncVars
              PROVE  SyncTypes'
  OBVIOUS
<1>0. /\ SyncTypes
      /\ NoCall \in CallType
      /\ \A c \in Callers : AfterGit(c) \in CallType
      /\ "git" \in Sources /\ "office365" \in Sources
      /\ Tip \in Nat /\ Tip # 0
      /\ state["git"].sha \in Nat /\ state["office365"].sha \in Nat
      /\ \A c \in Callers : calls[c].sha \in Nat
      /\ \A c \in Callers : calls[c].at = "state" => calls[c].sha # NoSha
  <2>1. NoCall \in CallType
    BY DEF NoCall, NoSha, CallType, Places
  <2>2. [NoCall EXCEPT !.at = "source"] \in CallType
    BY <2>1 DEF CallType, Places
  <2>3. \A c \in Callers : AfterGit(c) \in CallType
    BY <2>1, <2>2 DEF AfterGit
  <2>4. Tip \in Nat /\ Tip # 0
    BY DEF SyncInv, SyncTypes, Tip
  <2>5. /\ "git" \in Sources /\ "office365" \in Sources
        /\ state["git"].sha \in Nat /\ state["office365"].sha \in Nat
    BY DEF SyncInv, SyncTypes, StateType, Sources
  <2>6. /\ \A c \in Callers : calls[c].sha \in Nat
        /\ \A c \in Callers : calls[c].at = "state" => calls[c].sha # NoSha
    BY <2>4 DEF SyncInv, SyncTypes, CallType, CallProgress, NoSha
  <2>. QED
    BY <2>1, <2>3, <2>4, <2>5, <2>6 DEF SyncInv
<1>1. ASSUME NEW c \in Callers, NEW call \in CallType, calls' = [calls EXCEPT ![c] = call],
             UNCHANGED <<trees, feed>>, links' \subseteq Kinds, state' \in StateType
      PROVE  SyncTypes'
  <2>1. calls \in [Callers -> CallType]
    BY <1>0 DEF SyncTypes
  <2>2. calls' \in [Callers -> CallType]
    BY <1>1, <2>1, CallMoves
  <2>. QED
    BY <1>0, <1>1, <2>2 DEF SyncTypes, Tip
<1>2. /\ state \in StateType /\ links \subseteq Kinds
      /\ \A c \in Callers : calls[c] \in CallType
  BY <1>0 DEF SyncTypes
<1>3. ASSUME NEW c \in Callers, BeginSync(c)
      PROVE  SyncTypes'
  <2>1. [calls[c] EXCEPT !.at = "head"] \in CallType
    BY <1>2 DEF CallType, Places
  <2>2. state' \in StateType
    BY <1>0, <1>3, UpsertType DEF BeginSync, NoSha
  <2>. QED
    BY <1>0, <1>1, <1>2, <1>3, <2>1, <2>2, CallSteps DEF BeginSync
<1>4. ASSUME NEW c \in Callers, ReadHead(c)
      PROVE  SyncTypes'
  <2>1. [calls[c] EXCEPT !.at = "state", !.sha = Tip] \in CallType
    BY <1>0, <1>2 DEF CallType, Places
  <2>2. calls' = [calls EXCEPT ![c] = [calls[c] EXCEPT !.at = "state", !.sha = Tip]]
    BY <1>4 DEF ReadHead
  <2>. QED
    BY <1>1, <1>2, <1>4, <2>1, <2>2 DEF ReadHead
<1>5. ASSUME NEW c \in Callers, ReadState(c)
      PROVE  SyncTypes'
  <2>1. PICK at \in {"ingest", "fetch", "delete"} :
          calls' = [calls EXCEPT ![c] = [calls[c] EXCEPT !.at = at, !.last = state["git"].sha]]
    BY <1>0, <1>5, CallSteps
  <2>2. [calls[c] EXCEPT !.at = at, !.last = state["git"].sha] \in CallType
    BY <1>0, <1>2 DEF CallType, Places
  <2>. QED
    BY <1>1, <1>2, <1>5, <2>1, <2>2 DEF ReadState
<1>6. ASSUME NEW c \in Callers, DeleteChanged(c)
      PROVE  SyncTypes'
  <2>1. [calls[c] EXCEPT !.at = "fetch"] \in CallType
    BY <1>2 DEF CallType, Places
  <2>. QED
    BY <1>0, <1>1, <1>2, <1>6, <2>1, CallSteps DEF DeleteChanged
<1>7. ASSUME NEW c \in Callers, FetchFiles(c)
      PROVE  SyncTypes'
  <2>1. PICK docs \in SUBSET Doc :
          calls' = [calls EXCEPT ![c] = [calls[c] EXCEPT !.at = "ingest", !.docs = docs]]
    <3>1. ASSUME NEW paths, NEW unread
          PROVE  Docs(Tip, paths) \ unread \in SUBSET Doc
      BY <1>0, DocsType
    <3>. DEFINE docs == Docs(Tip, IF calls[c].last = NoSha THEN Files
                                  ELSE Changed(calls[c].last, Tip))
    <3>2. PICK unread \in SUBSET docs :
            calls' = [calls EXCEPT ![c].at = "ingest", ![c].docs = docs \ unread]
      BY <1>7 DEF FetchFiles
    <3>3. calls' = [calls EXCEPT ![c] = [calls[c] EXCEPT !.at = "ingest",
                                                         !.docs = docs \ unread]]
      <4>. HIDE DEF docs
      <4>. QED
        BY <3>2
    <3>. QED
      BY <3>1, <3>3
  <2>2. [calls[c] EXCEPT !.at = "ingest", !.docs = docs] \in CallType
    BY <1>2 DEF CallType, Places
  <2>. QED
    BY <1>1, <1>2, <1>7, <2>1, <2>2 DEF FetchFiles
<1>8. ASSUME NEW c \in Callers, IngestNext(c)
      PROVE  SyncTypes'
  <2>1. PICK d \in calls[c].docs :
          calls' = [calls EXCEPT ![c] = [calls[c] EXCEPT !.docs = calls[c].docs \ {d}]]
    BY <1>0, <1>8, CallSteps
  <2>2. [calls[c] EXCEPT !.docs = calls[c].docs \ {d}] \in CallType
    BY <1>2 DEF CallType
  <2>. QED
    BY <1>1, <1>2, <1>8, <2>1, <2>2 DEF IngestNext
<1>9. ASSUME NEW c \in Callers, RecordHead(c) \/ SyncFails(c)
      PROVE  SyncTypes'
  <2>1. /\ calls' = [calls EXCEPT ![c] = AfterGit(c)]
        /\ UNCHANGED <<trees, feed, links>>
    BY <1>9 DEF RecordHead, SyncFails
  <2>2. state' \in StateType
    BY <1>0, <1>9, UpsertType DEF RecordHead, SyncFails, NoSha
  <2>. QED
    BY <1>0, <1>1, <1>2, <2>1, <2>2
<1>10. ASSUME NEW c \in Callers, BeginSource(c)
       PROVE  SyncTypes'
  <2>1. [calls[c] EXCEPT !.at = "load"] \in CallType
    BY <1>2 DEF CallType, Places
  <2>2. state' \in StateType
    BY <1>0, <1>10, UpsertType DEF BeginSource, NoSha
  <2>. QED
    BY <1>0, <1>1, <1>2, <1>10, <2>1, <2>2, CallSteps DEF BeginSource
<1>11. ASSUME NEW c \in Callers, LoadState(c)
       PROVE  SyncTypes'
  <2>1. PICK L \in SUBSET Kinds :
          calls' = [calls EXCEPT ![c] = [calls[c] EXCEPT !.at = "resources",
                                   !.last = state["office365"].sha, !.resources = Kinds,
                                   !.links = L]]
    <3>1. {} \in SUBSET Kinds /\ links \in SUBSET Kinds
      BY <1>2
    <3>2. CASE state["office365"].sha = NoSha
      BY <1>11, <3>1, <3>2 DEF LoadState
    <3>3. CASE state["office365"].sha # NoSha
      BY <1>11, <3>1, <3>3 DEF LoadState
    <3>. QED
      BY <3>2, <3>3
  <2>2. [calls[c] EXCEPT !.at = "resources", !.last = state["office365"].sha,
                         !.resources = Kinds, !.links = L] \in CallType
    BY <1>0, <1>2 DEF CallType, Places
  <2>. QED
    BY <1>1, <1>2, <1>11, <2>1, <2>2 DEF LoadState
<1>12. ASSUME NEW c \in Callers, FetchInitial(c)
       PROVE  SyncTypes'
  <2>1. PICK k \in calls[c].resources, kept \in BOOLEAN, docs \in SUBSET Doc :
          calls' = [calls EXCEPT ![c] =
            [calls[c] EXCEPT
               !.resources = calls[c].resources \ {k},
               !.at = IF calls[c].resources \ {k} = {} THEN "ingest source" ELSE calls[c].at,
               !.docs = calls[c].docs \cup docs,
               !.links = IF kept THEN calls[c].links \cup {k} ELSE calls[c].links]]
    <3>1. \A D \in SUBSET feed : D \in SUBSET Doc
      BY <1>0 DEF SyncTypes, Doc
    <3>. QED
      BY <1>12, <3>1, FetchInitialCall
  <2>. DEFINE at == IF calls[c].resources \ {k} = {} THEN "ingest source" ELSE calls[c].at
              L  == IF kept THEN calls[c].links \cup {k} ELSE calls[c].links
              call == [calls[c] EXCEPT !.resources = calls[c].resources \ {k}, !.at = at,
                                       !.docs = calls[c].docs \cup docs, !.links = L]
  <2>2. call \in CallType
    <3>1. /\ calls[c].resources \ {k} \in SUBSET Kinds
          /\ calls[c].docs \cup docs \in SUBSET Doc
          /\ at \in Places /\ L \in SUBSET Kinds
      BY <1>2 DEF CallType, Places
    <3>. QED
      <4>. HIDE DEF at, L
      <4>. QED
        BY <1>2, <3>1 DEF CallType
  <2>3. calls' = [calls EXCEPT ![c] = call] /\ UNCHANGED <<trees, feed, links, state>>
    BY <1>12, <2>1 DEF FetchInitial
  <2>. QED
    <3>. HIDE DEF call
    <3>. QED
      BY <1>1, <1>2, <2>2, <2>3
<1>13. ASSUME NEW c \in Callers, FetchIncremental(c)
       PROVE  SyncTypes'
  <2>1. [calls[c] EXCEPT !.at = "ingest source", !.resources = {}] \in CallType
    BY <1>2 DEF CallType, Places
  <2>2. calls' = [calls EXCEPT ![c] = [calls[c] EXCEPT !.at = "ingest source",
                                                      !.resources = {}]]
    BY <1>13 DEF FetchIncremental
  <2>. QED
    BY <1>1, <1>2, <1>13, <2>1, <2>2 DEF FetchIncremental
<1>14. ASSUME NEW c \in Callers, RecordSource(c)
       PROVE  SyncTypes'
  <2>1. [calls[c] EXCEPT !.at = "links"] \in CallType
    BY <1>2 DEF CallType, Places
  <2>2. state' \in StateType
    BY <1>0, <1>14, UpsertType DEF RecordSource
  <2>. QED
    BY <1>0, <1>1, <1>2, <1>14, <2>1, <2>2, CallSteps DEF RecordSource
<1>15. ASSUME NEW c \in Callers, SaveLinks(c) \/ SourceFails(c) \/ LoseCall(c)
       PROVE  SyncTypes'
  <2>1. /\ calls' = [calls EXCEPT ![c] = NoCall]
        /\ UNCHANGED <<trees, feed>>
    BY <1>15 DEF SaveLinks, SourceFails, LoseCall
  <2>2. state' \in StateType
    BY <1>0, <1>2, <1>15, UpsertType DEF SaveLinks, SourceFails, LoseCall, NoSha
  <2>3. links' \subseteq Kinds
    BY <1>2, <1>15 DEF SaveLinks, SourceFails, LoseCall, CallType
  <2>. QED
    BY <1>0, <1>1, <2>1, <2>2, <2>3
<1>16. ASSUME NEW f \in Files, Push(f)
       PROVE  SyncTypes'
  <2>1. PICK version \in {0, Tip + 1} :
          trees' = Append(trees, [trees[Tip] EXCEPT ![f] = version])
    BY <1>16 DEF Push
  <2>2. trees[Tip] \in [Files -> Nat] /\ \A g \in Files : trees[Tip][g] <= Tip
    BY <1>0 DEF SyncTypes, Tip
  <2>3. [trees[Tip] EXCEPT ![f] = version] \in [Files -> Nat]
    BY <1>0, <2>2
  <2>4. /\ trees' \in Seq([Files -> Nat]) /\ trees' # <<>> /\ Tip' = Tip + 1
        /\ \A n \in 1..Tip : trees'[n] = trees[n]
        /\ trees'[Tip + 1] = [trees[Tip] EXCEPT ![f] = version]
    BY <1>0, <2>1, <2>3 DEF SyncTypes, Tip
  <2>5. \A n \in 1..Tip' : \A g \in Files : trees'[n][g] <= n
    <3>1. \A n \in 1..Tip : \A g \in Files : trees'[n][g] <= n
      BY <1>0, <2>4 DEF SyncTypes
    <3>2. \A g \in Files : trees'[Tip + 1][g] <= Tip + 1
      BY <1>0, <2>2, <2>4
    <3>3. \A n \in 1..Tip' : n \in 1..Tip \/ n = Tip + 1
      BY <1>0, <2>4
    <3>. QED
      BY <3>1, <3>2, <3>3
  <2>. QED
    BY <1>0, <1>16, <2>4, <2>5 DEF Push, SyncTypes
<1>17. ASSUME NEW i \in Items, ItemArrives(i)
       PROVE  SyncTypes'
  BY <1>0, <1>17 DEF ItemArrives, SyncTypes, Tip
<1>18. CASE UNCHANGED syncVars
  BY <1>0, <1>18 DEF syncVars, SyncTypes, Tip
<1>. QED
  BY <1>3, <1>4, <1>5, <1>6, <1>7, <1>8, <1>9, <1>10, <1>11, <1>12, <1>13, <1>14,
     <1>15, <1>16, <1>17, <1>18 DEF SyncNext, SyncStep

-----------------------------------------------------------------------------
(* RepoSync: what a step may do to the repository and to the index *)

\* Commits stay what they were, and what was ingested or given up stays so.
SyncMove ==
  /\ Tip' \in Nat /\ Tip <= Tip'
  /\ \A n \in 1..Tip : trees'[n] = trees[n]
  /\ stored \subseteq stored'
  /\ dropped \subseteq dropped'

LEMMA PushMoves ==
  ASSUME SyncTypes, NEW f \in Files, Push(f)
  PROVE  /\ Tip \in Nat /\ Tip # 0 /\ Tip' = Tip + 1
         /\ \A n \in 1..Tip : trees'[n] = trees[n]
         /\ \A g \in Files : trees'[Tip + 1][g] \in {0, Tip + 1, trees[Tip][g]}
<1>1. Tip \in Nat /\ Tip # 0 /\ trees[Tip] \in [Files -> Nat]
  BY DEF SyncTypes, Tip
<1>2. PICK version \in {0, Tip + 1} :
        trees' = Append(trees, [trees[Tip] EXCEPT ![f] = version])
  BY DEF Push
<1>3. [trees[Tip] EXCEPT ![f] = version] \in [Files -> Nat]
  BY <1>1
<1>4. /\ Tip' = Tip + 1
      /\ \A n \in 1..Tip : trees'[n] = trees[n]
      /\ trees'[Tip + 1] = [trees[Tip] EXCEPT ![f] = version]
  BY <1>1, <1>2, <1>3 DEF SyncTypes, Tip
<1>. QED
  BY <1>1, <1>4

LEMMA SyncMoves == SyncInv /\ [SyncNext]_syncVars => SyncMove
<1>. SUFFICES ASSUME SyncInv, [SyncNext]_syncVars
              PROVE  SyncMove
  OBVIOUS
<1>0. SyncTypes /\ Tip \in Nat
  BY DEF SyncInv, SyncTypes, Tip
<1>1. CASE UNCHANGED trees /\ stored \subseteq stored' /\ dropped \subseteq dropped'
  BY <1>0, <1>1 DEF SyncMove, Tip
<1>2. ASSUME NEW f \in Files, Push(f)
      PROVE  SyncMove
  <2>1. stored' = stored /\ dropped' = dropped
    BY <1>2 DEF Push
  <2>. QED
    BY <1>0, <1>2, <2>1, PushMoves DEF SyncMove
<1>3. ASSUME NEW c \in Callers, DeleteChanged(c)
      PROVE  UNCHANGED <<trees, stored, dropped>>
  BY <1>3 DEF DeleteChanged, Matching, SyncInv, RowsUnmarked
<1>4. ASSUME NEW c \in Callers, FetchFiles(c) \/ IngestNext(c) \/ FetchInitial(c)
      PROVE  UNCHANGED trees /\ stored \subseteq stored' /\ dropped \subseteq dropped'
  BY <1>4 DEF FetchFiles, IngestNext, FetchInitial
<1>5. ASSUME NEW c \in Callers,
             \/ BeginSync(c) \/ ReadHead(c) \/ ReadState(c) \/ RecordHead(c) \/ SyncFails(c)
             \/ BeginSource(c) \/ LoadState(c) \/ FetchIncremental(c) \/ RecordSource(c)
             \/ SaveLinks(c) \/ SourceFails(c) \/ LoseCall(c)
      PROVE  UNCHANGED <<trees, stored, dropped>>
  BY <1>5 DEF BeginSync, ReadHead, ReadState, RecordHead, SyncFails, BeginSource, LoadState,
              FetchIncremental, RecordSource, SaveLinks, SourceFails, LoseCall
<1>6. ASSUME NEW i \in Items, ItemArrives(i)
      PROVE  UNCHANGED <<trees, stored, dropped>>
  BY <1>6 DEF ItemArrives
<1>7. CASE UNCHANGED syncVars
  BY <1>1, <1>7 DEF syncVars
<1>. QED
  BY <1>1, <1>2, <1>3, <1>4, <1>5, <1>6, <1>7 DEF SyncNext, SyncStep

\* A commit that is covered stays covered, and a document leaves the list of those
\* still to be ingested when it was dealt with.
LEMMA CoveredStays ==
  ASSUME SyncTypes, SyncMove, NEW sha \in 1..Tip, NEW docs, NEW rest,
         CoveredBut(sha, docs),
         \A d \in docs : d \in rest \/ Row(d) \in stored' \/ d \in dropped'
  PROVE  sha \in 1..Tip' /\ CoveredBut(sha, rest)'
<1>0. Tip \in Nat /\ sha \in 1..Tip'
  BY DEF SyncTypes, Tip, SyncMove
<1>. SUFFICES ASSUME NEW f \in Wanted, trees'[sha][f] # 0
              PROVE  \E n \in sha..Tip' :
                       \/ trees'[n][f] = 0
                       \/ Row([file |-> f, version |-> trees'[n][f]]) \in stored'
                       \/ [file |-> f, version |-> trees'[n][f]] \in dropped'
                       \/ [file |-> f, version |-> trees'[n][f]] \in rest
  BY <1>0 DEF CoveredBut, Handled
<1>1. Tip \in Nat /\ trees[sha][f] # 0
  BY DEF SyncTypes, Tip, SyncMove
<1>2. PICK n \in sha..Tip :
        \/ trees[n][f] = 0
        \/ Row([file |-> f, version |-> trees[n][f]]) \in stored
        \/ [file |-> f, version |-> trees[n][f]] \in dropped
        \/ [file |-> f, version |-> trees[n][f]] \in docs
  BY <1>1 DEF CoveredBut, Handled
<1>3. n \in sha..Tip' /\ n \in 1..Tip /\ trees'[n] = trees[n]
  BY <1>1, <1>2 DEF SyncMove
<1>. QED
  BY <1>2, <1>3 DEF SyncMove

LEMMA IngestedStays ==
  ASSUME SyncTypes, SyncMove, NEW sha, Ingested(sha)
  PROVE  Ingested(sha)'
<1>1. CASE sha = NoSha
  BY <1>1 DEF Ingested
<1>2. CASE sha # NoSha
  <2>1. sha \in 1..Tip /\ CoveredBut(sha, {})
    BY <1>2 DEF Ingested
  <2>2. sha \in 1..Tip' /\ CoveredBut(sha, {})'
    BY <2>1, CoveredStays
  <2>. QED
    BY <2>2 DEF Ingested
<1>. QED
  BY <1>1, <1>2

\* A call that rests keeps what it has done while the other moves.
LEMMA CallRests ==
  ASSUME SyncTypes, SyncMove, NEW c \in Callers, CallProgress(c), calls'[c] = calls[c]
  PROVE  CallProgress(c)'
<1>1. PICK call : call = calls[c]
  OBVIOUS
<1>2. /\ call.at \in {"state", "delete", "fetch", "ingest"} => call.sha \in 1..Tip
      /\ call.at \in {"delete", "fetch"} => Ingested(call.last)
      /\ call.at = "ingest" => CoveredBut(call.sha, call.docs)
  BY <1>1 DEF CallProgress
<1>3. call.at \in {"state", "delete", "fetch", "ingest"} => call.sha \in 1..Tip'
  BY <1>2 DEF SyncMove, SyncTypes, Tip
<1>4. call.at \in {"delete", "fetch"} => Ingested(call.last)'
  BY <1>2, IngestedStays
<1>5. call.at = "ingest" => CoveredBut(call.sha, call.docs)'
  BY <1>2, CoveredStays
<1>. QED
  BY <1>1, <1>3, <1>4, <1>5 DEF CallProgress, Ingested, CoveredBut

\* Between two commits at which a file is the same it never was another.
LEMMA UnchangedBetween ==
  ASSUME SyncTypes, TreesEvolve, NEW last \in 1..Tip, NEW f \in Files,
         trees[last][f] = trees[Tip][f], trees[Tip][f] # 0, NEW n \in last..Tip
  PROVE  trees[n][f] = trees[Tip][f]
<1>1. /\ Tip \in 1..Tip /\ n \in 1..Tip /\ last \in 1..Tip /\ last <= n
      /\ trees[last][f] <= last /\ trees[Tip][f] \in Nat
  BY DEF SyncTypes, Tip
<1>2. trees[Tip][f] = trees[n][f] \/ trees[Tip][f] > n
  BY <1>1 DEF TreesEvolve
<1>. QED
  BY <1>1, <1>2

\* What a call fetches, and what the commit it starts from had ingested, covers
\* every commit up to the tip.
LEMMA FetchedCovers ==
  ASSUME SyncTypes, TreesEvolve, NEW sha \in 1..Tip, NEW last, Ingested(last),
         NEW docs, docs = Docs(Tip, IF last = NoSha THEN Files ELSE Changed(last, Tip))
  PROVE  CoveredBut(sha, docs)
<1>. SUFFICES ASSUME NEW f \in Wanted, trees[Tip][f] # 0,
                     [file |-> f, version |-> trees[Tip][f]] \notin docs
              PROVE  Handled([file |-> f, version |-> trees[Tip][f]])
  <2>1. Tip \in sha..Tip
    BY DEF SyncTypes, Tip
  <2>. QED
    BY <2>1 DEF CoveredBut
<1>1. last # NoSha /\ f \notin Changed(last, Tip) /\ f \in Files
  BY DEF Docs, Wanted
<1>2. last \in 1..Tip /\ CoveredBut(last, {}) /\ trees[last][f] = trees[Tip][f]
  BY <1>1 DEF Ingested, Changed
<1>3. PICK n \in last..Tip :
        trees[n][f] = 0 \/ Handled([file |-> f, version |-> trees[n][f]])
  BY <1>2 DEF CoveredBut
<1>4. trees[n][f] = trees[Tip][f]
  BY <1>1, <1>2, <1>3, UnchangedBetween
<1>. QED
  BY <1>3, <1>4

-----------------------------------------------------------------------------
(* RepoSync: the invariant *)

LEMMA TreesStep ==
  ASSUME SyncInv, [SyncNext]_syncVars
  PROVE  TreesEvolve'
<1>0. SyncTypes /\ TreesEvolve
  BY DEF SyncInv
<1>1. CASE UNCHANGED trees
  BY <1>0, <1>1 DEF TreesEvolve, Tip
<1>2. ASSUME NEW f \in Files, Push(f)
      PROVE  TreesEvolve'
  <2>. SUFFICES ASSUME NEW m \in 1..Tip', NEW n \in 1..m, NEW g \in Files
                PROVE  \/ trees'[m][g] = trees'[n][g] \/ trees'[m][g] = 0
                       \/ trees'[m][g] > n
    BY DEF TreesEvolve
  <2>1. /\ Tip \in Nat /\ Tip # 0 /\ Tip' = Tip + 1
        /\ \A k \in 1..Tip : trees'[k] = trees[k]
        /\ trees'[Tip + 1][g] \in {0, Tip + 1, trees[Tip][g]}
    BY <1>0, <1>2, PushMoves
  <2>2. CASE m \in 1..Tip
    BY <1>0, <2>1, <2>2 DEF TreesEvolve
  <2>3. CASE m = Tip + 1 /\ n = Tip + 1
    BY <2>3
  <2>4. CASE m = Tip + 1 /\ n \in 1..Tip
    <3>1. trees[Tip][g] = trees[n][g] \/ trees[Tip][g] = 0 \/ trees[Tip][g] > n
      BY <1>0, <2>1, <2>4 DEF TreesEvolve
    <3>. QED
      BY <2>1, <2>4, <3>1
  <2>. QED
    BY <2>1, <2>2, <2>3, <2>4
<1>. QED
  BY <1>1, <1>2
     DEF SyncNext, SyncStep, syncVars, BeginSync, ReadHead, ReadState, DeleteChanged, FetchFiles,
         IngestNext, RecordHead, SyncFails, BeginSource, LoadState, FetchInitial,
         FetchIncremental, RecordSource, SaveLinks, SourceFails, LoseCall, ItemArrives

LEMMA RowsStep ==
  ASSUME SyncInv, [SyncNext]_syncVars
  PROVE  RowsUnmarked'
<1>1. CASE stored' \subseteq stored
  BY <1>1 DEF SyncInv, RowsUnmarked
<1>2. ASSUME NEW c \in Callers, IngestNext(c)
      PROVE  RowsUnmarked'
  <2>1. PICK d : stored' \subseteq stored \cup {Row(d)}
    BY <1>2 DEF IngestNext
  <2>2. Row(d).source_type = ""
    BY DEF Row
  <2>. QED
    BY <2>1, <2>2 DEF SyncInv, RowsUnmarked
<1>. QED
  BY <1>1, <1>2
     DEF SyncNext, SyncStep, syncVars, BeginSync, ReadHead, ReadState, DeleteChanged, FetchFiles,
         RecordHead, SyncFails, BeginSource, LoadState, FetchInitial, FetchIncremental,
         RecordSource, SaveLinks, SourceFails, LoseCall, Push, ItemArrives

\* The steps that take a call from one place to the next keep what it rests on.
LEMMA CallAdvances ==
  ASSUME SyncInv, SyncMove, NEW c \in Callers, BeginSync(c) \/ SyncStep(c) \/ LoseCall(c)
  PROVE  CallProgress(c)'
<1>. DEFINE call == calls[c]
            next == calls'[c]
<1>0. /\ SyncTypes /\ calls \in [Callers -> CallType] /\ call \in CallType
      /\ Tip \in Nat /\ Tip # 0
      /\ call.at \in {"state", "delete", "fetch", "ingest"} => call.sha \in 1..Tip
      /\ call.at \in {"delete", "fetch"} => Ingested(call.last)
      /\ call.at = "ingest" => CoveredBut(call.sha, call.docs)
  BY DEF SyncInv, SyncTypes, CallProgress, Tip
<1>1. ASSUME next.at \notin {"state", "delete", "fetch", "ingest"}
      PROVE  CallProgress(c)'
  BY <1>1 DEF CallProgress
<1>2. CASE BeginSync(c)
  <2>1. next.at = "head"
    BY <1>0, <1>2 DEF BeginSync, CallType
  <2>. QED
    BY <1>1, <2>1
<1>3. CASE ReadHead(c)
  <2>1. next.at = "state" /\ next.sha = Tip /\ Tip' = Tip
    BY <1>0, <1>3 DEF ReadHead, CallType, Tip
  <2>. QED
    BY <1>0, <2>1 DEF CallProgress
<1>4. CASE ReadState(c)
  <2>1. call.at = "state" /\ call.sha \in 1..Tip /\ call.sha # NoSha
    BY <1>0, <1>4 DEF ReadState, NoSha
  <2>2. PICK last : last = state["git"].sha
    OBVIOUS
  <2>3. PICK at \in {"ingest", "fetch", "delete"} :
          /\ calls' = [calls EXCEPT ![c] = [calls[c] EXCEPT !.at = at, !.last = last]]
          /\ at = "ingest" => last = call.sha
    <3>1. CASE last = call.sha
      BY <1>4, <2>1, <2>2, <3>1 DEF ReadState
    <3>2. CASE last # call.sha /\ last = NoSha
      BY <1>4, <2>1, <2>2, <3>2 DEF ReadState
    <3>3. CASE last # call.sha /\ last # NoSha
      BY <1>4, <2>1, <2>2, <3>3 DEF ReadState
    <3>. QED
      BY <3>1, <3>2, <3>3
  <2>4. PICK sha, docs : sha = call.sha /\ docs = call.docs
    OBVIOUS
  <2>5. next.at = at /\ next.sha = sha /\ next.last = last /\ next.docs = docs
    BY <1>0, <2>3, <2>4 DEF CallType
  <2>6. Ingested(last)
    BY <2>2 DEF SyncInv
  <2>7. sha \in 1..Tip' /\ Ingested(last)'
    BY <1>0, <2>1, <2>4, <2>6, IngestedStays DEF SyncMove
  <2>8. at = "ingest" => CoveredBut(sha, docs)'
    <3>1. at = "ingest" => CoveredBut(sha, {})
      BY <2>1, <2>3, <2>4, <2>6 DEF Ingested
    <3>. QED
      BY <1>0, <2>1, <2>4, <3>1, CoveredStays
  <2>. QED
    BY <2>5, <2>7, <2>8 DEF CallProgress, Ingested, CoveredBut
<1>5. CASE DeleteChanged(c)
  <2>1. call.at = "delete"
    BY <1>5 DEF DeleteChanged
  <2>2. PICK sha, last : sha = call.sha /\ last = call.last
    OBVIOUS
  <2>3. next.at = "fetch" /\ next.sha = sha /\ next.last = last
    BY <1>0, <1>5, <2>2 DEF DeleteChanged, CallType
  <2>4. sha \in 1..Tip' /\ Ingested(last)'
    BY <1>0, <2>1, <2>2, IngestedStays DEF SyncMove
  <2>. QED
    BY <2>3, <2>4 DEF CallProgress, Ingested, CoveredBut
<1>6. CASE FetchFiles(c)
  <2>1. PICK sha, last : sha = call.sha /\ last = call.last
    OBVIOUS
  <2>2. call.at = "fetch" /\ sha \in 1..Tip /\ Ingested(last)
    BY <1>0, <1>6, <2>1 DEF FetchFiles
  <2>3. PICK docs : docs = Docs(Tip, IF last = NoSha THEN Files ELSE Changed(last, Tip))
    OBVIOUS
  <2>4. PICK unread \in SUBSET docs :
          /\ calls' = [calls EXCEPT ![c].at = "ingest", ![c].docs = docs \ unread]
          /\ dropped' = dropped \cup unread
    BY <1>6, <2>1, <2>3 DEF FetchFiles
  <2>5. next.at = "ingest" /\ next.sha = sha /\ next.docs = docs \ unread
    BY <1>0, <2>1, <2>4 DEF CallType
  <2>6. CoveredBut(sha, docs)
    BY <1>0, <2>2, <2>3, FetchedCovers DEF SyncInv
  <2>7. sha \in 1..Tip' /\ CoveredBut(sha, docs \ unread)'
    BY <1>0, <2>2, <2>4, <2>6, CoveredStays
  <2>. QED
    BY <2>5, <2>7 DEF CallProgress, CoveredBut
<1>7. CASE IngestNext(c)
  <2>1. PICK sha, docs : sha = call.sha /\ docs = call.docs
    OBVIOUS
  <2>2. PICK d \in docs :
          /\ calls' = [calls EXCEPT ![c].docs = docs \ {d}]
          /\ Row(d) \in stored' \/ d \in dropped'
    BY <1>7, <2>1 DEF IngestNext
  <2>3. /\ call.at \in {"ingest", "ingest source"} /\ next.at = call.at
        /\ next.sha = sha /\ next.docs = docs \ {d}
    BY <1>0, <1>7, <2>1, <2>2 DEF IngestNext, CallType
  <2>4. CASE call.at = "ingest source"
    BY <1>1, <2>3, <2>4
  <2>5. CASE call.at = "ingest"
    <3>1. sha \in 1..Tip' /\ CoveredBut(sha, docs \ {d})'
      BY <1>0, <2>1, <2>2, <2>5, CoveredStays
    <3>. QED
      BY <2>3, <2>5, <3>1 DEF CallProgress, CoveredBut
  <2>. QED
    BY <2>3, <2>4, <2>5
<1>8. CASE RecordHead(c) \/ SyncFails(c)
  <2>1. next = AfterGit(c)
    BY <1>0, <1>8 DEF RecordHead, SyncFails
  <2>2. next.at \in {"source", "idle"}
    BY <2>1 DEF AfterGit, NoCall
  <2>. QED
    BY <1>1, <2>2
<1>9. CASE BeginSource(c) \/ LoadState(c) \/ FetchIncremental(c) \/ RecordSource(c)
  <2>1. next.at \in {"load", "resources", "ingest source", "links"}
    <3>1. CASE BeginSource(c)
      BY <1>0, <3>1 DEF BeginSource, CallType
    <3>2. CASE LoadState(c)
      <4>1. PICK last, L :
              calls' = [calls EXCEPT ![c].at = "resources", ![c].last = last,
                                     ![c].resources = Kinds, ![c].links = L]
        BY <3>2 DEF LoadState
      <4>. QED
        BY <1>0, <4>1 DEF CallType
    <3>3. CASE FetchIncremental(c)
      BY <1>0, <3>3 DEF FetchIncremental, CallType
    <3>4. CASE RecordSource(c)
      BY <1>0, <3>4 DEF RecordSource, CallType
    <3>. QED
      BY <1>9, <3>1, <3>2, <3>3, <3>4
  <2>. QED
    BY <1>1, <2>1
<1>10. CASE FetchInitial(c)
  <2>1. call.at = "resources" /\ next.at \in {"resources", "ingest source"}
    <3>1. PICK k \in call.resources, kept \in BOOLEAN, docs \in SUBSET feed :
            calls' = [calls EXCEPT ![c] =
              [calls[c] EXCEPT
                 !.resources = calls[c].resources \ {k},
                 !.at = IF calls[c].resources \ {k} = {} THEN "ingest source" ELSE calls[c].at,
                 !.docs = calls[c].docs \cup docs,
                 !.links = IF kept THEN calls[c].links \cup {k} ELSE calls[c].links]]
      BY <1>10, FetchInitialCall
    <3>2. call.at = "resources"
      BY <1>10 DEF FetchInitial
    <3>. QED
      BY <1>0, <3>1, <3>2 DEF CallType
  <2>. QED
    BY <1>1, <2>1
<1>11. CASE SaveLinks(c) \/ SourceFails(c) \/ LoseCall(c)
  <2>1. next.at = "idle"
    <3>1. calls' = [calls EXCEPT ![c] = NoCall]
      BY <1>11 DEF SaveLinks, SourceFails, LoseCall
    <3>. QED
      BY <1>0, <3>1 DEF NoCall
  <2>. QED
    BY <1>1, <2>1
<1>. QED
  BY <1>2, <1>3, <1>4, <1>5, <1>6, <1>7, <1>8, <1>9, <1>10, <1>11 DEF SyncStep

\* Only the end of sync_repo moves the recorded commit, to one that is covered.
LEMMA RecordedStep ==
  ASSUME SyncInv, SyncMove, [SyncNext]_syncVars
  PROVE  Ingested(state["git"].sha)'
<1>0. /\ SyncTypes /\ Ingested(state["git"].sha)
      /\ "git" \in Sources /\ "office365" \in Sources /\ "git" # "office365"
  BY DEF SyncInv, Sources
<1>1. ASSUME state'["git"].sha = state["git"].sha
      PROVE  Ingested(state["git"].sha)'
  <2>1. PICK sha : sha = state["git"].sha
    OBVIOUS
  <2>2. Ingested(sha)'
    BY <1>0, <2>1, IngestedStays
  <2>. QED
    BY <1>1, <2>1, <2>2 DEF Ingested, CoveredBut
<1>2. ASSUME NEW c \in Callers, RecordHead(c)
      PROVE  Ingested(state["git"].sha)'
  <2>1. PICK sha : sha = calls[c].sha
    OBVIOUS
  <2>2. sha \in 1..Tip /\ CoveredBut(sha, {})
    BY <1>2, <2>1 DEF RecordHead, SyncInv, CallProgress
  <2>3. sha \in Nat /\ sha # NoSha
    BY <1>0, <2>2 DEF SyncTypes, Tip, NoSha
  <2>4. state'["git"].sha = sha
    BY <1>0, <1>2, <2>1, <2>3, UpsertType DEF RecordHead
  <2>5. sha \in 1..Tip' /\ CoveredBut(sha, {})'
    BY <1>0, <2>2, CoveredStays
  <2>. QED
    BY <2>4, <2>5 DEF Ingested, CoveredBut
<1>3. ASSUME NEW c \in Callers,
             \/ BeginSync(c) \/ SyncFails(c) \/ BeginSource(c) \/ RecordSource(c)
             \/ SourceFails(c)
      PROVE  state'["git"].sha = state["git"].sha
  <2>1. NoSha \in Nat /\ 1 \in Nat
    BY DEF NoSha
  <2>. QED
    BY <1>0, <1>3, <2>1, UpsertType
       DEF BeginSync, SyncFails, BeginSource, RecordSource, SourceFails
<1>4. CASE UNCHANGED state
  BY <1>1, <1>4
<1>. QED
  BY <1>1, <1>2, <1>3, <1>4
     DEF SyncNext, SyncStep, syncVars, ReadHead, ReadState, DeleteChanged, FetchFiles,
         IngestNext, LoadState, FetchInitial, FetchIncremental, SaveLinks, LoseCall,
         Push, ItemArrives

LEMMA SyncInvInit == SyncInit => SyncInv
<1>. SUFFICES ASSUME SyncInit PROVE SyncInv
  OBVIOUS
<1>1. SyncTypes
  BY SyncTypesInit
<1>2. Tip = 1
  BY DEF SyncInit, Tip
<1>3. TreesEvolve
  BY <1>2 DEF TreesEvolve
<1>4. RowsUnmarked
  BY DEF SyncInit, RowsUnmarked
<1>5. Ingested(state["git"].sha)
  BY DEF SyncInit, Ingested, Sources
<1>6. \A c \in Callers : CallProgress(c)
  BY DEF SyncInit, CallProgress, NoCall
<1>. QED
  BY <1>1, <1>3, <1>4, <1>5, <1>6 DEF SyncInv

LEMMA SyncInvStep == SyncInv /\ [SyncNext]_syncVars => SyncInv'
<1>. SUFFICES ASSUME SyncInv, [SyncNext]_syncVars
              PROVE  SyncInv'
  OBVIOUS
<1>1. SyncMove /\ SyncTypes
  BY SyncMoves DEF SyncInv
<1>2. ASSUME NEW c \in Callers
      PROVE  CallProgress(c)'
  <2>1. CASE calls'[c] = calls[c]
    BY <1>1, <2>1, CallRests DEF SyncInv
  <2>2. CASE BeginSync(c) \/ SyncStep(c) \/ LoseCall(c)
    BY <1>1, <2>2, CallAdvances
  <2>3. ASSUME NEW b \in Callers \ {c}, BeginSync(b) \/ SyncStep(b) \/ LoseCall(b)
        PROVE  calls'[c] = calls[c]
    <3>1. calls \in [Callers -> CallType]
      BY DEF SyncInv, SyncTypes
    <3>2. ASSUME BeginSync(b) \/ LoseCall(b) \/ ReadHead(b) \/ ReadState(b)
                   \/ DeleteChanged(b) \/ FetchFiles(b)
          PROVE  calls'[c] = calls[c]
      BY <3>1, <3>2 DEF BeginSync, LoseCall, ReadHead, ReadState, DeleteChanged, FetchFiles
    <3>3. ASSUME IngestNext(b) \/ RecordHead(b) \/ SyncFails(b) \/ BeginSource(b)
                   \/ LoadState(b)
          PROVE  calls'[c] = calls[c]
      BY <3>1, <3>3 DEF IngestNext, RecordHead, SyncFails, BeginSource, LoadState
    <3>4. ASSUME FetchInitial(b)
          PROVE  calls'[c] = calls[c]
      BY <3>1, <3>4, FetchInitialCall
    <3>5. ASSUME FetchIncremental(b)
          PROVE  calls'[c] = calls[c]
      BY <3>1, <3>5 DEF FetchIncremental
    <3>6. ASSUME RecordSource(b) \/ SaveLinks(b) \/ SourceFails(b)
          PROVE  calls'[c] = calls[c]
      BY <3>1, <3>6 DEF RecordSource, SaveLinks, SourceFails
    <3>. QED
      BY <2>3, <3>2, <3>3, <3>4, <3>5, <3>6, Zenon DEF SyncStep
  <2>. QED
    BY <2>1, <2>2, <2>3 DEF SyncNext, syncVars, Push, ItemArrives
<1>. QED
  BY <1>1, <1>2, SyncTypesStep, TreesStep, RowsStep, RecordedStep DEF SyncInv

\* Of every file of the recorded commit, that version or a later one is ingested,
\* unless its request failed or it was removed: no commit that arrives during a
\* sync, and no second sync beside it, lets the record run ahead of the index.
THEOREM RecordedCommitIngested == SyncSpec => []RecordedIsIngested
<1>1. SyncInv => RecordedIsIngested
  BY DEF SyncInv, Ingested, CoveredBut, RecordedIsIngested
<1>. QED
  BY <1>1, SyncInvInit, SyncInvStep, PTL DEF SyncSpec

=============================================================================
