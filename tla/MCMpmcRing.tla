----------------------------- MODULE MCMpmcRing -----------------------------
EXTENDS MpmcRing
=============================================================================
