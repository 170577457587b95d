SPECIFICATION Spec
CONSTANTS
  Halves = {left, right}
  Profiles = {one}
  MaxGen = 2
  MaxRestarts = 1
  MaxFaults = 1
  MaxStales = 1
SYMMETRY Symmetry
INVARIANT NothingActivatesAlone
PROPERTY ImplementsPairedRecord
CHECK_DEADLOCK FALSE
