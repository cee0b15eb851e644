\* Blocks of three samples, a sample being 5 in the fixed point, so that errors of
\* a fraction of a sample occur; a correction every other block.  A small fifo of 6
\* and a large one of 12, seen empty, nearly empty, at the target, above it, full.
\* A correction of more than 15 is more than a sample per sample: the bounds leave
\* room for that case too.
CONSTANTS
  BASEFREQ = 160000000
  MaxDiv = 127
  FieldSize = 64
  lockBitcount = TRUE
  Rates = {32000, 44100, 48000}
  FifoLens = {6, 12}
  SmallFifo = 10
  Fills = {0, 3, 4, 5, 6, 12}
  ONE = 5
  BLOCK = 3
  PERIOD = 2
  TGT = 4
  GAIN = 2
  GAIN_NOSPIRAM = 2
  AddDelCap = 20
  ErrCap = 40
SPECIFICATION Spec
INVARIANTS TypeOK ErrorSettles
PROPERTY SpeedFollowsFill
