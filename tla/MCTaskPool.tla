------------------------------ MODULE MCTaskPool ------------------------------
EXTENDS TaskPool
==============================================================================
