\* As read_global_c, in a legacy file (no payload_offset characteristic).
CONSTANTS
  GDims <- MC_GDims
  NSteps = 1
  HasTime = FALSE
  FileIsFortran = FALSE
  ChangeEndianness = FALSE
  Legacy = TRUE
  Layouts <- GridLayouts
  WriteSets <- AllWrites
  Requests <- AllRequests
  NoVal = NoVal
  Garbage = Garbage

SPECIFICATION Spec
INVARIANT NoWrongWrite
\* one read call: it returns, and its final state has no successor
CHECK_DEADLOCK FALSE
