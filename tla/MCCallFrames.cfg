\* Functions whose parameters are words, on a stack with room for two calls of any, or three of pong.
SPECIFICATION Spec
CONSTANTS
  ping = ping
  pong = pong
  flag = flag
  Main = Main
  v1 = v1
  v2 = v2
  Junk = Junk
  Fun      <- WordFunctions
  Params   <- WordParams
  Locals   <- WordLocals
  Val      <- MCVal
  Top      = 54
SYMMETRY Values
INVARIANTS
  VariablesHold
  StackBalanced
  ControlKept
