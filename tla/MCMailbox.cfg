SPECIFICATION Spec
CONSTANTS
  a = a
  b = b
  ra = ra
  rb = rb
  k1 = k1
  k2 = k2
  l1 = l1
  x = x
  y = y
  Accounts = {a, b}
  Genesis = {b}
  Keys = {ra, rb, k1, k2}
  None = None
  RootKey <- MCRootKey
  LetterId = {l1}
  Name = {x, y}
  GenesisName = x
  KeyGrace = 1
  RenameCooldown = 1
  MaxFormerNames = 1
  RotateActivation = 1
  RenameActivation = 1
  Backups = {TRUE}
  Rotating = {a}
  Writing = {b}
  MaxPending = 2
  MaxHeight = 3
  MaxFaults = 1
SYMMETRY Symmetry
CHECK_DEADLOCK FALSE
INVARIANTS
  TypeOK
  SealedToLiveKey
  LettersStayReadable
  SentStaysReadable
  NamesAreTraced
