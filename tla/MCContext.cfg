SPECIFICATION Spec
CONSTANTS
  UserTasks = {1, 2}
  KernelTasks = {4, 5}
  kQuanta = 2
  Faults = {6, 13, 14}
  Devices = {1, 12}
INVARIANTS
  StacksStayShort
  OnlyExpectedStops
PROPERTIES
  ResumedIntact
  CallsReturnIntact
  TimerKeepsTicking
