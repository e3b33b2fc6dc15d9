CONSTANTS
  heap_start = 0
  heap_end = 48
  kPage = 16
  Sizes = {0, 1, 12, 21}
  Alignments = {1, 8, 16}
SPECIFICATION Spec
INVARIANTS
  ChunksExact
  Accounting
PROPERTIES
  ImplementsHeap
