SPECIFICATION FairSpec
CONSTANTS
  Command = {"PAUSE"}
  MESSAGE_MAX = 2
  MaxCommands = 0
  Can = {"decoder_error"}
PROPERTIES StopReturns
