CONSTANTS
  k1 = k1
  k2 = k2
  k3 = k3
  u1 = u1
  u2 = u2
  u3 = u3
  KernelTasks <- MCKernelTasks
  UserTasks <- MCUserTasks
  kMainKernelTask = kMainKernelTask
  Null = Null
SPECIFICATION Spec
INVARIANTS
  ListExact
PROPERTIES
  ImplementsRing
