--------------------------- MODULE MCStreamPublish ---------------------------
\* A small instance of StreamPublish for TLC.
EXTENDS StreamPublish

AllConfigs == SUBSET Bridges
=============================================================================
