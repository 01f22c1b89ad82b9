------------------------------ MODULE MCStores ------------------------------
(***************************************************************************)
(* Retention and RepoSync in one run for TLC.  They share no state, so one *)
(* of them moves in each behaviour and the other rests: the run is the sum *)
(* of the two instances, not their product.                                *)
(***************************************************************************)
EXTENDS MCRetention, MCRepoSync

VARIABLE part

\* One file of the repository is there and the others may follow; so may the items.
FirstFile == CHOOSE f \in Files : TRUE
SyncStart == feed = {} /\ \A f \in Files : trees[1][f] = 1 <=> f = FirstFile

RetentionRests == has["documents_meta"] = {}

StoresInit ==
  /\ RetentionInit
  /\ SyncInit
  /\ SyncStart
  /\ part \in {"retention", "sync"}
  /\ part = "sync" => RetentionRests

RetentionMoves == part = "retention" /\ RetentionNext /\ UNCHANGED <<syncVars, part>>
SyncMoves == part = "sync" /\ SyncNext /\ UNCHANGED <<retentionVars, part>>

StoresNext == RetentionMoves \/ SyncMoves

\* The fairness of the part that moves: RetentionFairness or SyncFairness.
StoresFairness ==
  /\ WF_retentionVars(part = "retention" /\ StartRun(Job))
  /\ WF_retentionVars(part = "retention" /\ RunStep(Job))
  /\ WF_syncVars(part = "sync" /\ BeginSync(Scheduled))
  /\ WF_syncVars(part = "sync" /\ SyncStep(Scheduled))

StoresSpec ==
  StoresInit /\ [][StoresNext]_<<retentionVars, syncVars, part>> /\ StoresFairness

=============================================================================
