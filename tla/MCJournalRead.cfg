SPECIFICATION JournalSpec
CONSTANTS
  Fields = {a, b}
  Values = {x, y}
  Absent = Absent
  MaxEntries = 3
  MaxList = 1
CHECK_DEADLOCK FALSE
INVARIANTS
  AnswersAreConfirmed
