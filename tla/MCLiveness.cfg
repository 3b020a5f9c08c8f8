\* The optimiser on every program of Trees.
SPECIFICATION Spec
CONSTANTS
  Programs   <- MCPrograms
  Block      <- MCBlock
  Name       <- MCName
  Literal    <- MCLiteral
  NoBlock    = NoBlock
INVARIANTS
  TypeOK
  WorklistSettled
  NothingNeededRemoved
  NoUselessCodeLeft
  NothingLiveInVain
PROPERTY Termination
