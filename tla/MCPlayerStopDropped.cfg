SPECIFICATION FairSpec
CONSTANTS
  Command = {"PAUSE"}
  MESSAGE_MAX = 2
  MaxCommands = 2
  Can = {}
PROPERTIES StopReturns
