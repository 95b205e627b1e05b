CONSTANTS
  Voltages = {0, 1, 2}
  InitialThreshold = 1
  InitialVoltage = 0
SPECIFICATION Spec
INVARIANT PayloadOffInIdle
