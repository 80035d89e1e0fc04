---------------------------- MODULE MCPrivateRoom ----------------------------
EXTENDS PrivateRoom
==============================================================================
