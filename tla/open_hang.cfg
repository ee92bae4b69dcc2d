\* One failure in fopen between bp_read_open and its collective steps:
\* rank 0's minifooter read or a receive buffer on another rank.
CONSTANTS
  NRanks = 3
  NGroups = 1
  Faults = {"minifooter", "alloc_recv"}
  MaxFaults = 1

SPECIFICATION Spec
PROPERTY FopenReturns
\* the program ends once every rank has closed its file and its groups
CHECK_DEADLOCK FALSE
