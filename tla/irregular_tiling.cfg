\* A tiling that is not a grid: row 1 is a single block written first,
\* row 0 is split between two ranks, row 2 is one block written last.
CONSTANTS
  GDims <- MC_GDims
  NSteps = 1
  HasTime = FALSE
  FileIsFortran = FALSE
  ChangeEndianness = FALSE
  Legacy = FALSE
  Layouts <- Irregular
  WriteSets <- AllWrites
  Requests <- AllRequests
  NoVal = NoVal
  Garbage = Garbage

SPECIFICATION Spec
INVARIANT NoWrongWrite
\* one read call: it returns, and its final state has no successor
CHECK_DEADLOCK FALSE
