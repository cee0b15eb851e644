\* Netbufs of up to half the fifo, a decoder buffer that takes two reads.
CONSTANTS
  SPIRAMSIZE = 6
  SPIREADSIZE = 2
  FIFO_LOWMARK = 8
  MaxWrite = 3
  MaxRead = 4
  MaxStream = 10
  CntCap = 1
SPECIFICATION PSpec
INVARIANTS PTypeOK NoUnderrun DecodesStream
PROPERTIES DecoderFiresUp WritesEnd
\* The network stops after MaxStream bytes.
CHECK_DEADLOCK FALSE
