CONSTANTS
  Datasets = {d1, d2}
  Expiring = {d1}
  Requests = {r1}
  Linked <- LinkedDatasets
  Named = {d1, d2}
  Large = {d2}
  Job = job
  Manual = manual
  MaxErrors = 1
  Files = {f1, f2}
  FileTraits <- TraitsOfFiles
  AllowDocuments = FALSE
  Items <- OneItem
  Scheduled = scheduled
  ByHand = byhand
  MaxCommits = 2
  MaxSyncErrors = 1
SPECIFICATION StoresSpec
INVARIANTS
  CompletedIsErased
  RecordedIsIngested
PROPERTIES
  ErasesOnlyWhatIsDue
  ErasureHappens
  SyncCatchesUp
CHECK_DEADLOCK FALSE
