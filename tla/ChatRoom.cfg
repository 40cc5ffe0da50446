SPECIFICATION Spec
CONSTANTS
  u1 = u1
  u2 = u2
  u3 = u3
  u4 = u4
  NoUser = NoUser
  Users <- FourUsers
  MaxMembers = 3
  Resources = {"play", "publish"}
  SrsMayFail = TRUE
SYMMETRY UserSymmetry
INVARIANT OwnerIsAnchored
INVARIANT WithinCapacity
INVARIANT ClosedHoldsOnlyOwner
PROPERTY OwnerNeverSilenced
