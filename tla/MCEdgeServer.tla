----------------------------- MODULE MCEdgeServer -----------------------------
\* A small instance of EdgeServer for TLC.
EXTENDS EdgeServer
=============================================================================
