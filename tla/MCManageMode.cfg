\* A voltage below every threshold in use, one on it and one above it.
CONSTANTS
  Voltages = {0, 1, 2}
  InitialThreshold = 1
  InitialVoltage = 0
SPECIFICATION FairSpec
INVARIANTS ModeInv DevicesFollowMode
PROPERTIES GatherIsTruthful ReportIsTruthful SafeIsLeftOnCommand LowReadingEndsSafe
