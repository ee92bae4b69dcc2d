\* Three ranks open a two-group file, open and close groups and close the file; the failures fopen and gopen handle after the collective steps.
CONSTANTS
  NRanks = 3
  NGroups = 2
  Faults = {"namelist", "alloc_gh", "attr_namelist"}
  MaxFaults = 2

SPECIFICATION Spec
INVARIANT TypeOK
INVARIANT IndexAgrees
PROPERTY FopenReturns
\* the program ends once every rank has closed its file and its groups
CHECK_DEADLOCK FALSE
