\* As radio.cfg: does a knob left at the end of the dial open the hotspot?
CONSTANTS
  MAX_ADC = 14
  OVERLAPP_ADC = 1
  Counts = {0, 1, 3}
  KnobRate = 2
  FirstCount = 3
SPECIFICATION RSpec
PROPERTY MaxOpensHotspot
