SPECIFICATION Spec
CONSTANTS
  InitCapacity = 2
  kDefaultCapacity = 3
  kDefaultSize = 4
  CHAR_BIT = 2
  Chars = {1, 2}
  MaxLen = 6
  MaxBits = 9
  Width = 7
  USER_START = 1000
  ARG_MAX = 4
  Linked <- MCLinked
  Commands <- MCCommands
  kTarBlockSize = 8
  kSizeDigits = 3
  Archives <- MCArchives
  NewDirs <- MCNewDirs
  NewFiles <- MCNewFiles
  Writes <- MCWrites
  kMaxNodes = 6
INVARIANTS
  VectorIsSequence
  StringIsSequence
  BitsAreSequence
  DivisionExact
  PrintedReadsBack
  ProgramIsLoaded
  ArgumentsArrive
  TreeIsWhatWasMade
  LookupIsExact
  ParsesMembers
  ListingIsExact
