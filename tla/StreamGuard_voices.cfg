CONSTANTS
  Lanes = {"egress"}
  ChainLengths = {2}
  Endless = {FALSE}
  KeepAlives = {TRUE}
  Rungs = 2
  MaxChunks = 2
  MaxQueue = 2
  MaxRestarts = 1
SPECIFICATION Spec
INVARIANT OneVoice
CHECK_DEADLOCK FALSE
