\* Two functions, nested or not, with up to three slots in a frame.
SPECIFICATION Spec
CONSTANTS
  MaxOpen  = 2
  MaxSlots = 3
  MaxDone  = 2
CHECK_DEADLOCK FALSE
INVARIANTS
  TypeOK
  NoOverlap
  InReservedSpace
