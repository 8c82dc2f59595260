SPECIFICATION BuddySpec
CONSTANTS
  Top = 2
  PageCount = 8
  Usable <- MCUsable
  Low = 4
  Caller = {a}
  MaxCount = 2
INVARIANTS
  PagesPartitioned
PROPERTIES
  ImplementsPageAllocator
