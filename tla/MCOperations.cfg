SPECIFICATION Spec
CONSTANTS
  Keys <- MCKeys
  Folders <- MCFolders
  Below <- MCBelow
  MaxKeys = 2
  Listings <- MCListings
  Initially <- MCInitially
  MaxChanges = 2
  PathLists <- MCPathLists
  OtherBucket <- MCOtherBucket
  MaxS3DeleteObjects = 2
  Headers = {"w", "x", "y", "z", "content-type", "content-length"}
  MetaHeaders = {"w", "x", "y", "z"}
  Empty = {"z"}
  ContentType = "content-type"
  Parts = 2
  Copies <- MCCopies
  MaxWrites = 2
  AdminThreads = {t1}
  S3Port = 9021
  MaxAdminCalls = 2
CHECK_DEADLOCK FALSE
INVARIANTS ListedOnce FolderAfterContents DeleteIsReal CopyIsReal PortKept
PROPERTIES OperationReturns
