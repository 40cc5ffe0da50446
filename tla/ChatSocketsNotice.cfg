SPECIFICATION FairSpec
CONSTANTS
  u1 = u1
  u2 = u2
  s1 = s1
  s2 = s2
  None = None
  Heartbeat = Heartbeat
  Users = {u1, u2}
  Sockets = {s1, s2}
  Rooms = {r1}
  Broadcasts = {b1}
  UserOf <- TwoUsers
CHECK_DEADLOCK FALSE
PROPERTY NoticesFinish
