SPECIFICATION FairSpec
CONSTANTS
  Command = {"SEARCH_RESET"}
  MESSAGE_MAX = 2
  MaxCommands = 1
  Can = {}
PROPERTIES StopIsFinal
