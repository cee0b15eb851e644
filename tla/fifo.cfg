\* A ring of 5 with chunks of 4, longer than half of it: chunks are cut at the end
\* of the ring, calls of 5 take several turns.  The low mark lies inside the ring,
\* as in the build with the RAM chip: a reader that finds the fill above it again
\* tries again at once, and one below it goes to sleep.
CONSTANTS
  SPIRAMSIZE = 5
  SPIREADSIZE = 4
  FIFO_LOWMARK = 4
  MaxWrite = 5
  MaxRead = 5
  MaxStream = 12
  CntCap = 0
SPECIFICATION Spec
INVARIANTS TypeOK RingHolds ReadInOrder NoLostWakeup NeverBothAsleep
PROPERTIES ImplementsByteFifo ReadReturns
\* The network stops after MaxStream bytes.
CHECK_DEADLOCK FALSE
