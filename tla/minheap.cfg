SPECIFICATION Spec
CONSTANTS
  e1 = e1
  e2 = e2
  e3 = e3
  e4 = e4
  e5 = e5
  e6 = e6
  Entries <- MCEntries
  Priorities <- MCPriorities
INVARIANTS HeapInv
PROPERTY ImplementsQueue
SYMMETRY EntrySymmetry
