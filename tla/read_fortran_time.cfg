\* Fortran-written global 2-D array with a time axis, read from C: every grid
\* decomposition whose rank-0 block is thicker than one along file axis 0,
\* the variable written by all ranks in time steps 1..k, every slab and time range.
CONSTANTS
  GDims <- MC_GDims
  NSteps = 2
  HasTime = TRUE
  FileIsFortran = TRUE
  ChangeEndianness = FALSE
  Legacy = FALSE
  Layouts <- ThickFirstLayouts
  WriteSets <- PrefixWrites
  Requests <- AllRequests
  NoVal = NoVal
  Garbage = Garbage

SPECIFICATION Spec
INVARIANT TypeOK
INVARIANT NoWrongWrite
INVARIANT ReadDeliversSlab
\* one read call: it returns, and its final state has no successor
CHECK_DEADLOCK FALSE
