CONSTANTS
  KernelPageDir = KernelPageDir
  NoFrame = NoFrame
  kNumPageDirs = 2
  kNumFrames = 8
  kHeapEnd = 10
  kUserEnd = 258
SPECIFICATION Spec
INVARIANTS
  RefsExact
  KernelIsCommon
  OnlyResourcesRunOut
PROPERTIES
  Isolation
