\* Two clients of each registry; three faults; an expiry as long as a check interval,
\* so that an earlier name can come back and expire before a later one is taken.
CONSTANTS
    Clients = {1, 2}
    Addrs = {a1, a2}
    CHECK_INTERVAL = 2
    TIMER_EXPIRE = 2
    REPORT_INTERVAL = 1
    Fds = {11, 12, 13, 14}
    Down = Down
    Deaf = Deaf
    MaxFaults = 3
SPECIFICATION Spec
INVARIANTS
    TypeOK
    SubscribersInStep
    NothingStale
    KeptWhileReporting
PROPERTY KnownAgain
\* A push process with nothing on its links waits.
CHECK_DEADLOCK FALSE
