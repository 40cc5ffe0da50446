----------------------------- MODULE MCChatRoom -----------------------------
\* A small instance of ChatRoom for TLC.
EXTENDS ChatRoom, TLC

CONSTANTS u1, u2, u3, u4

FourUsers == {u1, u2, u3, u4}

\* Users are only compared for equality.
UserSymmetry == Permutations(Users)
=============================================================================
