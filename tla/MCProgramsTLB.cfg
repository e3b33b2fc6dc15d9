\* A processor that only drops the TLB entry it is told to.
SPECIFICATION Spec
CONSTANTS
  KernelPageDir = KernelPageDir
  NoFrame = NoFrame
  kNumPageDirs = 5
  kNumFrames = 20
  kHeapEnd = 9
  kUserEnd = 259
  InvlpgDropsAll = FALSE
  Commands <- MCCommands
  Argvs <- MCArgvs
INVARIANT TlbCoherent
