CONSTANTS
    g1 = g1
    g2 = g2
    g3 = g3
    r1 = r1
    Guests = {g1, g2, g3}
    Requests = {r1}
    SessionTTL = 1
    CapWindow = 3
    HardBackstop = 3
    MaxSessionsPerDay = 1
    MaxMessages = 1
    MaxConsolidates = 1
    MaxSweepTime = 1
    MaxTime = 5
    MaxFailures = 1
    Nobody = Nobody
SPECIFICATION FairSpec
CHECK_DEADLOCK FALSE
INVARIANTS
    TypeOK DailyCap GuestSweepable SweptContentGone
PROPERTIES
    LiveGuestKept ExpiredIsSwept
