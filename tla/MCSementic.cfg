SPECIFICATION MCSpec
CONSTANTS
  x = x
  y = y
  Names = {x, y}
  Strings = {"s"}
  MaxVisits = 5
  MaxArguments = 2
SYMMETRY Renamings
CHECK_DEADLOCK FALSE
INVARIANTS TypeOK ResolvesLexically ScopesRestored ReturnsToItsFunction CalleeKnown ParametersRecorded NoSilentUnknown
