\* A readBuf of 6 with a guard of 2 holds a frame of either size, the guard and the
\* head of the next frame.  Frames of 2 and 3 bytes have main data of 0 and 1 byte.
\* False headers declare a frame too short for its side information, one that fits,
\* and one that can not fit.  One odd cell at a time in readBuf: a cut, junk or a
\* false header anywhere, again and again.
CONSTANTS
  READBUFSZ = 6
  GUARD = 2
  FrameLens = {2, 3}
  FalseLens = {1, 2, 6}
  HEADER = 2
  MainBegins = {0, 1, 2}
  MaxOdd = 1
  MaxBegin = 2
  MaxSpace = 1
  MDLEN = 3
SPECIFICATION Spec
INVARIANTS TypeOK WedgeNeedsLongHeader OwnData
PROPERTIES AlignmentKept ImplementsReservoir CleanStreamPlays
