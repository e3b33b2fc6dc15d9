CONSTANTS
  u1 = u1
  u2 = u2
  u3 = u3
  UserTasks <- MCThreeUserTasks
  kMainKernelTask = kMainKernelTask
  NoTask = NoTask
  kQuanta = 2
SPECIFICATION FairSpec
INVARIANTS
  QueueExact
  ContextMatches
  LiveReferences
  MainIsAlone
PROPERTIES
  CompletedIsFinal
  ImplementsRing
  NoStarvation
  JoinReturns
