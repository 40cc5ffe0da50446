SPECIFICATION Spec
CONSTANTS
  i1 = i1
  i2 = i2
  u1 = u1
  Ids <- MCIds
  Users <- MCUsers
  Invitee <- MCInvitee
  Legacy <- NoLegacy
  MaxMembers = 1
  MaxStarts = 2
  MaxFailures = 0
INVARIANTS ShardsDisjoint OneLivePending SettledIsDurable
PROPERTIES AnswerIsFinal
\* The process may be down for good.
CHECK_DEADLOCK FALSE
