\* Netbufs of more than half the fifo, as a full TCP segment (1460 bytes) is
\* for the fifo of 1850 bytes: here 5 bytes of 6.
CONSTANTS
  SPIRAMSIZE = 6
  SPIREADSIZE = 2
  FIFO_LOWMARK = 8
  MaxWrite = 5
  MaxRead = 4
  MaxStream = 9
  CntCap = 1
SPECIFICATION PSpec
PROPERTY DecoderFiresUp
\* The network stops after MaxStream bytes.
CHECK_DEADLOCK FALSE
