\* Liveness, without symmetry: one slot, so that both clients sleep on it.
SPECIFICATION FairSpec
CONSTANTS
  Workers = {w1, w2}
  Clients = {main, c1}
  Owner = main
  NbSlots = 1
  Tasks = {t1, t2, t3}
  NoTask = NoTask
PROPERTIES
  EveryTaskExecuted
  CallsReturn
