\* Two workers, batches of four lines, two calls with the same matrix.
SPECIFICATION FairSpec
CONSTANTS
  Workers = {w1, w2}
  Main = main
  NbSlots = 4
  Tasks = {1, 2, 3, 4, 5, 6, 7, 8, 9, 10, 11}
  NoTask = NoTask
  Profiles <- MCProfiles
  MaxSolves = 2
INVARIANTS
  LinesInMatrix
  NoRace
  EarlierLinesFinal
  LinesComplete
  InvertsFactorized
PROPERTIES
  Implements
  SolverReturns
