\* As settings.cfg: does the radio always start?
CONSTANTS
  Texts = {"plain", "escesc", "long"}
  Ports = {80}
  Counts = {0, 2, 3, 100}
  Capacity = 11
  MaxCmds = 5
SPECIFICATION Spec
INVARIANT AlwaysStarts
