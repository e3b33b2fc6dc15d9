CONSTANTS
  u1 = u1
  u2 = u2
  u3 = u3
  UserTasks <- MCUserTasks
  kMainKernelTask = kMainKernelTask
  NoTask = NoTask
  kQuanta = 2
SPECIFICATION Spec
INVARIANTS
  CodeBeforeFirstRun
