CONSTANTS
  Files = {f1}
  FileTraits <- TraitsOfFiles
  AllowDocuments = FALSE
  Items <- OneItem
  Scheduled = scheduled
  ByHand = byhand
  MaxCommits = 1
  MaxSyncErrors = 0
SPECIFICATION SyncSpec
PROPERTY Office365IsIncremental
CHECK_DEADLOCK FALSE
