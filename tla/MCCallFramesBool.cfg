\* A function with a bool parameter: does the parameter get its argument?
SPECIFICATION Spec
CONSTANTS
  ping = ping
  pong = pong
  flag = flag
  Main = Main
  v1 = v1
  v2 = v2
  Junk = Junk
  Fun      <- BoolFunctions
  Params   <- BoolParams
  Locals   <- BoolLocals
  Val      <- MCVal
  Top      = 40
INVARIANT VariablesHold
