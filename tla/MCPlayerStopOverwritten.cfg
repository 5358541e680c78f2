SPECIFICATION FairSpec
CONSTANTS
  Command = {"PAUSE"}
  MESSAGE_MAX = 2
  MaxCommands = 0
  Can = {"pcm_end"}
INVARIANTS StopReported
