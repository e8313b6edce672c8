SPECIFICATION DesktopSpec
CONSTANTS
  Ieds = {real, sim}
  Simulated = {sim}
  Commands = {"operate"}
  Flows = {1, 2}
  Haste = TRUE
  MaxBegun = 3
  MaxTicks = 1
INVARIANTS
  RealIedsAreGuarded
CHECK_DEADLOCK FALSE
