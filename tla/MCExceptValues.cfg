SPECIFICATION FairSpec
CONSTANTS
  A = A
  B = B
  NoException = NoException
  Types <- MCTypes
  CatchSequences <- MCCatchSequences
  MaxFrames = 5
INVARIANTS
  TypeOK
  NodesMatchTries
  CaughtMatchesHandlers
  RecordsMatchScopes
  ValuesAreOwned
PROPERTIES
  DeliveredCleanly
  ImplementsTryCatch
  EveryThrowIsHandled
