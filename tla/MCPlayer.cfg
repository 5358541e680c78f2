SPECIFICATION FairSpec
CONSTANTS
  Command = {"PAUSE", "RESUME", "START", "SEARCH", "NOLOOP"}
  MESSAGE_MAX = 4
  MaxCommands = 3
  Can = {"need_start", "loop_mode", "type_parser", "rw_on_pause", "video", "buffering", "io_error"}
INVARIANTS TypeOK StopReported PauseHolds MateWorksAlone StopKept
PROPERTIES StopEnds StopIsFinal SearchHeld StopReturns ExitReturns SearchAnswered
