\* Two known clients and one that is not, room for one child or two.
SPECIFICATION FairSpec
CONSTANTS
  Clients = {c1, c2, c3}
  Known = {c1, c2}
  Rooms = {1, 2}
  NoClient = NoClient
INVARIANTS
  CountExact
  ListAlive
  NeverTooMany
  HandlerHasChild
PROPERTIES
  Answered
  DeadForgotten
