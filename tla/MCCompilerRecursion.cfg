\* A local variable needed after a recursive call: is it printed as written?
SPECIFICATION CompilerSpec
CONSTANTS
  Source     <- Recursions
  Programs   <- RecursionPrograms
  Block      <- MCBlock
  Name       <- MCName
  Literal    <- MCLiteral
  NoBlock    = NoBlock
  Lowered    <- RecursionLowered
  Given      <- MCGiven
  Meaning    <- RecursionMeaning
  Operation  <- MCOperation
  LiteralNumber <- MCLiteralNumber
  Undefined  = 99
  MaxSteps   = 60
INVARIANT PrintsAsWritten
