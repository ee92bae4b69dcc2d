\* bp2bp converting the file of structured2d_noxml, written by 1, 2 or 4
\* ranks in every npx x npy arrangement up to 2 x 2, and a two-group file.
CONSTANTS
  Files <- MC_Files
  Garbage = Garbage
  Undefined = Undefined

SPECIFICATION Spec
INVARIANT WriterTiles
INVARIANT OutputTiles
INVARIANT OutputMatchesInput
INVARIANT GroupSizeCovers
\* the converter is a program that ends: its final state has no successor
CHECK_DEADLOCK FALSE
