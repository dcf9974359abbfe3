CONSTANTS
    l1 = l1
    p1 = p1
    p2 = p2
    Letters = {l1}
    Payments = {p1, p2}
    MaxHeight = 3
    MaxReorgs = 1
    RememberBlocks = 1
    Price = 2
    PageSize = 2
    PendingAge = 1
    Ttl = 2
    n1 = n1
    n2 = n2
    s1 = s1
    s2 = s2
    Seeds = {n1, n2}
    Forks <- LightForks
    Syncs = {s1, s2}
    Window = 2
    HeadersPage = 2
    MaxRestarts = 1
SPECIFICATION ServicesSpec
CHECK_DEADLOCK FALSE
INVARIANTS
    PaymentsCountOnce
    PushesAreApart
PROPERTIES
    PaidInTimeIsKept
    LettersAreAnnounced
    NeverLighterUnlessOvertaken
