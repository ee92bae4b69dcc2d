\* C-written global 2-D array without time axis: every grid decomposition,
\* every hyperslab and the requests one past the bound on each axis.
CONSTANTS
  GDims <- MC_GDims
  NSteps = 1
  HasTime = FALSE
  FileIsFortran = FALSE
  ChangeEndianness = FALSE
  Legacy = FALSE
  Layouts <- GridLayouts
  WriteSets <- AllWrites
  Requests <- AllRequests
  NoVal = NoVal
  Garbage = Garbage

SPECIFICATION FairSpec
INVARIANT NoWrongWrite
PROPERTY ImplementsSlabRead
\* one read call: it returns, and its final state has no successor
CHECK_DEADLOCK FALSE
