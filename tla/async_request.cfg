SPECIFICATION LiveSpec
CONSTANTS
  Reqs = {r1, r2}
  ChanCap = 3
  MaxCrash = 1
  QuickRestart = FALSE
INVARIANTS TypeOK OwnAnswer
PROPERTIES ImplementsRemoteCall EveryCallEnds
