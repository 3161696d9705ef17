\* Two workers, the owner and a second client, and a ring of two slots: four
\* tasks fill it, make both clients sleep on it and go round it.
SPECIFICATION Spec
CONSTANTS
  Workers = {w1, w2}
  Clients = {main, c1}
  Owner = main
  NbSlots = 2
  Tasks = {t1, t2, t3, t4}
  NoTask = NoTask
SYMMETRY MCSymmetry
INVARIANTS
  TypeOK
  ExactlyOnce
  NoLostWakeup
PROPERTIES
  WaitForAll
  Implements
