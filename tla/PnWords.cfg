SPECIFICATION Spec
CONSTANTS
  Words = 3
  WordBits = 3
  MaxPn = 12
INVARIANTS
  WindowExact
PROPERTIES
  ImplementsWindow
  ImplementsFilter
