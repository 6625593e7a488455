SPECIFICATION Spec
VIEW View
CONSTANTS
  N = 2
  Main = Main
  Nil = Nil
  Slots <- MCSlots
  Scenarios <- MCEphemerons
  SweepMax = 2
PROPERTY EphemeronKept
CHECK_DEADLOCK FALSE
