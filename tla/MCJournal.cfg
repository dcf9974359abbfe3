SPECIFICATION JournalSpec
CONSTANTS
  Fields = {a, b}
  Values = {x, y}
  Absent = Absent
  MaxEntries = 3
  MaxList = 1
SYMMETRY Symmetry
CHECK_DEADLOCK FALSE
INVARIANTS
  JournalTypeOK
  JournalRestores
PROPERTIES
  ImplementsAtomic
