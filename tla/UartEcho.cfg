\* Lines of at most two characters, a software fifo for two bytes and a
\* hardware fifo of three, whose interrupt is raised when one byte is left.
CONSTANTS
  a = a
  Thread = Thread  Handler = Handler
  Producers = {Thread}  Consumers = {Handler}
  Chars = {a}
  BS = BS  SP = SP  CR = CR  LF = LF
  Values = {a, BS, SP, CR, LF}
  buff_size = 2
  size = 3
  Wrap = 8
  Lengths = 8
  NULL = NULL
  Depth = 3
  Trigger = 1
SPECIFICATION UartSpec
INVARIANTS UartTypeOK EchoMatchesLine EveryByteAccepted
PROPERTIES StrandedOnlyByPut OutputEnds
