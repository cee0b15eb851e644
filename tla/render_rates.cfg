\* The sample rates of MPEG audio and the dividers of the chip: does every one
\* found reach the port?
CONSTANTS
  BASEFREQ = 160000000
  MaxDiv = 127
  FieldSize = 64
  lockBitcount = TRUE
  Rates = {8000, 11025, 12000, 16000, 22050, 24000, 32000, 44100, 48000}
  FifoLens = {6}
  SmallFifo = 10
  Fills = {0, 4, 6}
  ONE = 4
  BLOCK = 3
  PERIOD = 2
  TGT = 4
  GAIN = 1
  GAIN_NOSPIRAM = 3
  AddDelCap = 14
  ErrCap = 28
SPECIFICATION Spec
INVARIANT DividersReachPort
