SPECIFICATION FairSpec
CONSTANTS
  Players = {p1, p2, p3}
  Publishers = {q1, q2}
  MaxQueued = 1
  HubWaits = FALSE
INVARIANT PlayersAreFed
INVARIANT RestsClean
PROPERTY PlayersGetStream
PROPERTY StopsPulling
PROPERTY PublisherHears
