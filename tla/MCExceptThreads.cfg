SPECIFICATION SpecThreads
CONSTANTS
  A = A
  T1 = T1
  T2 = T2
  NoException = NoException
  Types <- MCTypes
  CatchSequences <- MCCatchSequences
  Threads <- MCThreads
  MaxFrames = 2
PROPERTIES
  ThreadUnwindsItsObjects
CHECK_DEADLOCK FALSE
