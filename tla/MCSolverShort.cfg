SPECIFICATION Spec
CONSTANTS
  Workers = {w1, w2}
  Main = main
  NbSlots = 4
  Tasks = {1, 2, 3, 4, 5, 6, 7, 8}
  NoTask = NoTask
  Profiles <- MCShort
  MaxSolves = 1
INVARIANT
  LinesInMatrix
