CONSTANTS
  Lanes = {"raw", "egress"}
  ChainLengths = {0, 2}
  Endless = {TRUE, FALSE}
  KeepAlives = {TRUE, FALSE}
  Rungs = 2
  MaxChunks = 3
  MaxQueue = 2
  MaxRestarts = 1
SPECIFICATION Spec
INVARIANTS TypeOK 
PROPERTIES Promise EveryStreamEnds
CHECK_DEADLOCK FALSE
