--------------------------- MODULE MCLiveDelivery ----------------------------
\* A small instance of LiveDelivery for TLC.
EXTENDS LiveDelivery
=============================================================================
