\* Any products, calls and leftovers: how can a value be lost?
\* Deadlock is off: a run stops when a value is lost, when all four temporaries are
\* waited for or appointed, or when the compiler aborts.
SPECIFICATION UntilLoss
CONSTANTS
  t1 = t1
  t2 = t2
  t3 = t3
  t4 = t4
  f1 = f1
  f2 = f2
  x   = x
  one = one
  None = None
  Junk = Junk
  Temp     <- Temps
  Foreign  <- Foreigners
  Variable = {x}
  Instant  = {one}
  Place    <- Places
  SlotOf   <- SharedSlots
  MaxPending = 3
  MaxArgs    = 1
CHECK_DEADLOCK FALSE
SYMMETRY Renamings
INVARIANT TypeOK
PROPERTY OnlyKnownLosses
