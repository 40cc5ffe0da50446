------------------------- MODULE MCInvitationStore -------------------------
(* Instances of InvitationStore for TLC. *)
EXTENDS InvitationStore, TLC

CONSTANTS i1, i2, u1

MCIds     == {i1, i2}
OneId     == {i1}
MCUsers   == {u1}
\* Both invitations are for one user, so that they can collide.
MCInvitee == [i \in Ids |-> u1]
NoLegacy  == [i \in Ids |-> "none"]
=============================================================================
