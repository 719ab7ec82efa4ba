\* A file of up to two parts, three progress events, two edits.
CONSTANTS
  Sizes = {1, 2, 3}
  TelegramLimit = 2
  UserLimits = {1, 2}
  MaxPubs = 3
  MaxUpdates = 1
  MaxTrouble = 2
SPECIFICATION FairSpec
INVARIANTS TypeOK DeliveredWhole UploadsFit CompressionSilences EditsBounded CleanUnlessOrphaned StatisticsAreOwn
PROPERTIES ListenersStop
CHECK_DEADLOCK FALSE
