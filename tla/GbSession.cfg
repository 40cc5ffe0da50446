SPECIFICATION FairSpec
CONSTANTS
  Sips = {c1, c2}
  Medias = {m1, m2}
  None = None
  MaxSessions = 2
  MaxTimeout = 1
\* A device that is gone comes back with new connections only, of which there
\* are so many.
CHECK_DEADLOCK FALSE
INVARIANT SessionOutlives
INVARIANT EstablishedIsAnswered
PROPERTY GoneIsDisposed
