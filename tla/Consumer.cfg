CONSTANTS
  m1 = m1
  m2 = m2
  q1 = q1
  q2 = q2
  NoMessage = NoMessage
  Worker = {w1}
  Queue = {q1, q2}
  Message = {m1, m2}
  Home <- MCOneHome
  EmptyBody = {m2}
  MaxMessagesPerReceive = 2
  MaxDelivery = 2
  Faults = {"expiry", "settle", "kill"}
SPECIFICATION FairSpec
PROPERTY AtLeastOnce
PROPERTY Served
PROPERTY RunEnds
