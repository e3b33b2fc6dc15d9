CONSTANTS
  KernelPageDir = KernelPageDir
  NoFrame = NoFrame
  kNumPageDirs = 2
  kNumFrames = 8
  kHeapEnd = 9
  kUserEnd = 258
  Preemptible = FALSE
SPECIFICATION SpecBegan
PROPERTIES
  ReclaimIsAtomic
