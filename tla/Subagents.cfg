SPECIFICATION FairSpec
CONSTANTS
  c1 = c1
  c2 = c2
  m1 = m1
  m2 = m2
  m3 = m3
  Children = {c1, c2}
  Messages = {m1, m2}
  Limit = 1
INVARIANT WorkersOwnSlots
INVARIANT MessagesKeepTheirOrder
INVARIANT RestIsAnnounced
PROPERTY WaitingIsServed
CHECK_DEADLOCK FALSE
