---------------------------- MODULE MCXLDecideQue ----------------------------
EXTENDS XLDecideQue
=============================================================================
