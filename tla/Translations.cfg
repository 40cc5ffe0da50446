SPECIFICATION FairSpec
CONSTANTS
  Ids = {i1, i2, i3}
  Rooms = {r1, r2}
  Sources = {alice}
  Langs = {en}
  Handlers = {h1, h2}
  None = None
  MaxTicks = 2
INVARIANTS ActiveIsInSlot ProcessIsInSlot OneFeederPerRoom
PROPERTY SilentIsInactive
