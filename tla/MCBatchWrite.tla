---------------------------- MODULE MCBatchWrite ----------------------------
EXTENDS BatchWrite
=============================================================================
