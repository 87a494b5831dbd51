\* Links of both kinds are lost at any time.  An item of the cache serves two calls,
\* and is too old after a second: CacheMinimal is such that one item is not enough.
CONSTANTS
    Keys = {k1, k2}
    Clients = {c1, c2}
    Grps = {g1}
    NoGrp = nogrp
    Fds = {4, 5}
    Closed = closed
    Left = left
    CacheSize = 2
    CacheMinimal = 2
    CacheExpire = 0
    ClearInterval = 1
    MaxRequests = 2
SPECIFICATION FairSpec
INVARIANTS
    NoEmptyItem
    OldestFirst
    WaitingIsPending
    PendingHasRequest
    NoAnswerUnasked
PROPERTY
    EveryAskerAnswered
