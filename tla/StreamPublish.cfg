SPECIFICATION FairSpec
CONSTANTS
  Conns = {c1, c2}
  Sources = {s1, s2}
  None = None
  Configs <- AllConfigs
  MaxMishaps = 1
INVARIANT OnePublisher
INVARIANT KeepsItsSources
INVARIANT BusyIsHeld
INVARIANT UsedIsPooled
PROPERTY StreamIsForgotten
