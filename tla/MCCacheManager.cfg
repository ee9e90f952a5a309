\* Two threads, three files and three blocks (a file that is deleted while it is
\* read keeps its block); memory for five units, three per file.
CONSTANTS
  Threads = {t1, t2}
  Ids = {f1, f2, f3}
  MaxBlocks = 3
  Initial = 1
  PerFile = 3
  Maximum = 5
  WriteSizes = {1, 2}
  MaxSize = 4
SPECIFICATION Spec
SYMMETRY Interchangeable
INVARIANTS
  TypeOK
  UtilizationIsExact
  OvercommitIsBounded
  ReadersSeeWhatWasWritten
  FilesFollowBlocks
