\* A dial of 0 to 14 with a margin of 1: three channels leave a rest at the end of
\* the dial.  The server is asked for none, one or three channels.
CONSTANTS
  MAX_ADC = 14
  OVERLAPP_ADC = 1
  Counts = {0, 1, 3}
  KnobRate = 2
  FirstCount = 3
SPECIFICATION RSpec
INVARIANT RTypeOK
PROPERTIES RestartOpensServer ServerRestartNeedsKnob KnobObeyed
