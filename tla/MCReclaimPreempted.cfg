CONSTANTS
  KernelPageDir = KernelPageDir
  NoFrame = NoFrame
  kNumPageDirs = 3
  kNumFrames = 12
  kHeapEnd = 9
  kUserEnd = 257
  Preemptible = TRUE
SPECIFICATION SpecReclaim
INVARIANTS
  RefsExactThroughout
