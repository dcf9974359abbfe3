CONSTANTS
    ann = ann
    harbour = harbour
    nobody = nobody
    d1 = d1
    d2 = d2
    c1 = c1
    Players = {ann, harbour}
    NoName = nobody
    Harbour = harbour
    Dives = {d1, d2}
    Courses = {c1}
    DailyPrompts = 2
    PrizeDepth = 1
    KeepDays = 1
    MaxTime = 3
    DiveAmount = 1
    RideAmount = 1
    RideNamed = 2
    MaxDay = 2
    MaxPrizes = 3
    MaxCrashes = 1
    Tip = 1
    HarbourPrizes = {2}
    LargestGift = 2
    Mondays = {2}
    DailyCap = 2
    MaxPerTick = 2
    MaxMishaps = 1
SPECIFICATION StorySpec
SYMMETRY Symmetry
CHECK_DEADLOCK FALSE
INVARIANTS
    PrizesOncePerDay
    TypeOK
    PrizesAreKept
    ReceiptsAreTrue
    NothingPaidTwice
    SpendingIsBounded
PROPERTIES
    RecordsOnlyFall
