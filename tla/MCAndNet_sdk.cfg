\* One link, since links share nothing but the thread, the lock and the list of
\* timers; three queued requests, of which two are fetched at a time.
CONSTANTS
    MaxLinks = 1
    MaxQueue = 3
    TimerIds = {0}
    FETCH_MAX = 2
SPECIFICATION Spec
INVARIANT TimersEndWithLink
PROPERTIES
    
    EveryRequestServed
\* The lock may be kept by the net thread, and the thread dead.
CHECK_DEADLOCK FALSE
