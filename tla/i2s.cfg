\* Four buffers of two samples: the engine laps the decoder and the decoder
\* goes round the ring more than once.
CONSTANTS
  I2SDMABUFCNT = 4
  I2SDMABUFLEN = 2
  MaxSamples = 11
  UdrCap = 1
SPECIFICATION Spec
INVARIANTS TypeOK QueueIsRing LateExplains
PROPERTIES PlaysInOrder PushResumes
