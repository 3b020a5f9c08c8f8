\* The compiled code against the source program, on the programs of Trees.
SPECIFICATION CompilerSpec
CONSTANTS
  Source     <- MCSource
  Programs   <- MCPrograms
  Block      <- MCBlock
  Name       <- MCName
  Literal    <- MCLiteral
  NoBlock    = NoBlock
  Lowered    <- MCLowered
  Given      <- MCGiven
  Meaning    <- MCMeaning
  Operation  <- MCOperation
  LiteralNumber <- MCLiteralNumber
  Undefined  = 99
  MaxSteps   = 60
INVARIANT PrintsAsWritten
PROPERTIES
  EndsAsWritten
  ControlFollowsEdges
