\* C-written global 2-D array with a time axis.
CONSTANTS
  GDims <- MC_GDims
  NSteps = 2
  HasTime = TRUE
  FileIsFortran = FALSE
  ChangeEndianness = FALSE
  Legacy = FALSE
  Layouts <- GridLayouts
  WriteSets <- AllWrites
  Requests <- AllRequests
  NoVal = NoVal
  Garbage = Garbage

SPECIFICATION Spec
INVARIANT ReadDeliversSlab
\* one read call: it returns, and its final state has no successor
CHECK_DEADLOCK FALSE
