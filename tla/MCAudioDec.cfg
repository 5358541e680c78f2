SPECIFICATION Spec
CONSTANTS
  MESSAGE_NUM_MAX = 3
INVARIANTS TypeOK CodecInUse OutputFollows NothingLeft
PROPERTIES StopReturns
CHECK_DEADLOCK FALSE
