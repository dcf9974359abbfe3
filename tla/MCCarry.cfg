CONSTANTS
    ann = ann
    bob = bob
    Phones = {ann, bob}
    Writers = {ann}
    MaxHops = 2
    MaxItems = 2
    MaxLetters = 2
    MaxMishaps = 1
SPECIFICATION CarrySpec
CHECK_DEADLOCK FALSE
INVARIANTS
    CarryTypeOK
    QueuedIsKept
PROPERTIES
    OutboxesEmpty
