SPECIFICATION FairSpec
CONSTANTS
  b1 = b1
  b2 = b2
  s1 = s1
  s2 = s2
  Battles = {b1, b2}
  Students = {s1, s2}
  MemberLists <- TwoMembers
  Publishers = {p1}
  Conns = {c1, c2}
  Watches <- SameBattle
  Capacity = 1
  MaxEvents = 1
  Faults = TRUE
INVARIANTS
  TypeOK
  NoPanic
  HubMatchesConnections
  InOrder
  NothingVanishes
PROPERTIES
  BroadcastEnds
  EventsArrive
  GoneIsForgotten
CHECK_DEADLOCK FALSE
