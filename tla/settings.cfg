\* Up to five requests between power losses at any moment; three channels do not
\* fit the flash.
CONSTANTS
  Texts = {"plain", "escesc", "long"}
  Ports = {80}
  Counts = {0, 2, 3, 100}
  Capacity = 11
  MaxCmds = 5
SPECIFICATION Spec
INVARIANTS TypeOK SavedIsLoaded AllOrNothing CrashNeedsCut
PROPERTY ShownIsStored
