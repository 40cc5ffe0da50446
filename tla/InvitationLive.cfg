SPECIFICATION FairSpec
CONSTANTS
  i1 = i1
  i2 = i2
  u1 = u1
  Ids <- OneId
  Users <- MCUsers
  Invitee <- MCInvitee
  Legacy <- NoLegacy
  MaxMembers = 1
  MaxStarts = 3
  MaxFailures = 1
PROPERTIES ImplementsLifecycle EventuallyDurable EventuallyExpired
\* The process may be down for good.
CHECK_DEADLOCK FALSE
