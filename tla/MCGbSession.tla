----------------------------- MODULE MCGbSession ------------------------------
\* A small instance of GbSession for TLC.
EXTENDS GbSession
=============================================================================
