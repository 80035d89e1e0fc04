---------------------------- MODULE MCPlayerCoins ----------------------------
EXTENDS PlayerCoins

\* CoinsDue promises nothing after a flaw
BeforeFlaws == flaw = {}
=============================================================================
