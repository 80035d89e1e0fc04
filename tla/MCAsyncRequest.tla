---------------------------- MODULE MCAsyncRequest ----------------------------
EXTENDS AsyncRequest
=============================================================================
