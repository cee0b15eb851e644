\* The constants of channel.c.  Counts the user may ask for, the refused 0 and
\* 100 among them, and up to 36, beyond which a channel is no wider than its margins.
CONSTANTS
  MAX_ADC = 1024
  OVERLAPP_ADC = 5
  Counts = {0, 1, 3, 7, 13, 36, 100}
SPECIFICATION Spec
INVARIANTS TypeOK Hysteresis EveryChannelSelectable MaxKnobIsServer DialEven
