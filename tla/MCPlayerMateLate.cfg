SPECIFICATION FairSpec
CONSTANTS
  Command = {"PAUSE"}
  MESSAGE_MAX = 2
  MaxCommands = 1
  Can = {"late_mate"}
INVARIANTS MateWorksAlone
