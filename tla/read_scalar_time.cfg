\* A scalar written in each time step by one or two ranks, in a legacy file
\* of the other byte order: every time range.
CONSTANTS
  GDims <- MC_NoDims
  NSteps = 3
  HasTime = TRUE
  FileIsFortran = FALSE
  ChangeEndianness = TRUE
  Legacy = TRUE
  Layouts <- ScalarLayouts
  WriteSets <- ScalarWrites
  Requests <- AllRequests
  NoVal = NoVal
  Garbage = Garbage

SPECIFICATION Spec
INVARIANT NoWrongWrite
INVARIANT ReadDeliversSlab
\* one read call: it returns, and its final state has no successor
CHECK_DEADLOCK FALSE
