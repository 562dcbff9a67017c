----------------------------- MODULE MCChannel -----------------------------
EXTENDS Channel
=============================================================================
