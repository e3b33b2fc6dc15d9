\* The whole system from the boot on.
SPECIFICATION Spec
CONSTANTS
  KernelPageDir = KernelPageDir
  NoFrame = NoFrame
  kNumPageDirs = 5
  kNumFrames = 20
  kHeapEnd = 9
  kUserEnd = 259
  InvlpgDropsAll = TRUE
  Commands <- MCCommands
  Argvs <- MCArgvs
INVARIANTS StartUpDelivers ArgumentsWait WindowsClose OnlyResourcesRunOut AllGivenBack
PROPERTIES CommandsReturn
