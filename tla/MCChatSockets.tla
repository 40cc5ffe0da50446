---------------------------- MODULE MCChatSockets ----------------------------
\* A small instance of ChatSockets for TLC: two sockets of one user, who
\* reconnects, or of two users.
EXTENDS ChatSockets

CONSTANTS u1, u2, s1, s2

OneUser == [s \in {s1, s2} |-> u1]
TwoUsers == [s \in {s1, s2} |-> IF s = s1 THEN u1 ELSE u2]
=============================================================================
