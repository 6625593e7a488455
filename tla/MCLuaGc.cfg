SPECIFICATION Spec
VIEW View
CONSTANTS
  N = 4
  Main = Main
  Nil = Nil
  Slots <- MCSlots
  Scenarios <- MCScenarios
  SweepMax = 2
INVARIANTS NoDangling TriColor
PROPERTIES FullCollects FinalizedFirst WeakEntriesKept ResurrectedLeaveValues
CHECK_DEADLOCK FALSE
