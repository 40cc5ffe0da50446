SPECIFICATION Spec
CONSTANTS
  u1 = u1
  u2 = u2
  s1 = s1
  s2 = s2
  None = None
  Heartbeat = Heartbeat
  Users = {u1, u2}
  Sockets = {s1, s2}
  Rooms = {r1, r2}
  Broadcasts = {b1}
  UserOf <- OneUser
CHECK_DEADLOCK FALSE
INVARIANT ListedWhereSubscribed
INVARIANT EndedIsForgotten
