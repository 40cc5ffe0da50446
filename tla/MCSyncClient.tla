---------------------------- MODULE MCSyncClient ----------------------------
\* A small instance of SyncClient for TLC.
EXTENDS SyncClient
=============================================================================
