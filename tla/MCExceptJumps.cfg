SPECIFICATION SpecWithJumps
CONSTANTS
  A = A
  B = B
  NoException = NoException
  Types <- MCTypes
  CatchSequences <- MCOneCatch
  MaxFrames = 2
INVARIANTS
  JumpTargetIsOpen
