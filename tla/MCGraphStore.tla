---------------------------- MODULE MCGraphStore ----------------------------
EXTENDS GraphStoreInv
=============================================================================
