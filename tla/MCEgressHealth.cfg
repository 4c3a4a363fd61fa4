SPECIFICATION Spec
CONSTANTS
  Workers = {w1, w2}
  Egresses = {"e1", "e2"}
  Group <- MCGroup
  MaxAttempts = 1
  Base = 1
  Cap = 2
  Budget = 2
  Delays = {0, 2}
  MaxFaults = 2
  MaxBack = 1
PROPERTIES RestrictionServed ProbeWaits
SYMMETRY Sym
