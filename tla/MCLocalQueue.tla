---------------------------- MODULE MCLocalQueue ----------------------------
EXTENDS LocalQueue
=============================================================================
