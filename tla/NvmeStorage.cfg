SPECIFICATION FairSpec
CONSTANTS
  Threads = {boot, other}
  Boot = boot
  Nobody = Nobody
  NBlocks = 2
  Depth = 2
  ActiveLimits = {1, 2}
  CommandIds = 65535
  MaxCalls = 3
  MaxErrors = 1
CHECK_DEADLOCK FALSE
INVARIANTS  Quarantine
PROPERTY CallsReturn
