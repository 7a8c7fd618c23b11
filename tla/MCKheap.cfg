SPECIFICATION Spec
CONSTANTS
  Base = 4
  HeapWords = 20
  Sizes = {0, 3, 4, 9, 14}
  Width = 8
CHECK_DEADLOCK FALSE
INVARIANTS LinksExact
PROPERTIES ImplementsAllocator
VIEW HeapView
