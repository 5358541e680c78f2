SPECIFICATION Spec
CONSTANTS
  Command = {"FF", "FF_OFF", "SEARCH", "SEARCH_RESET", "SEARCH_END", "NOLOOP", "PAUSE", "RESUME"}
  MESSAGE_MAX = 2
  MaxCommands = 2
  Can = {"video", "loop_mode", "io_error", "decoder_error", "pcm_end", "late_mate", "buffering",
         "codec_error", "subtitle"}
INVARIANTS FreedIsQuiet
PROPERTIES ExitIsFinal
