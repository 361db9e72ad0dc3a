---------------------------- MODULE MCValueFile -----------------------------
EXTENDS ValueFile, TLC
=============================================================================
